---- MODULE Spec2Model ----
(***************************************************************************)
(* A model of the timetracker CLI core: the session state file, the CSV    *)
(* log file, and the TimeTracker operations start, stop, log, deleteEntry  *)
(* and getLogEntriesForPeriod, with the helpers they call (DateUtils,      *)
(* TimeCalculator, SessionEntry, FileManager).  configDir tells whether    *)
(* the configuration directory exists; procs holds the positions of the    *)
(* steps that run concurrently.                                            *)
(*                                                                         *)
(* Time is counted in seconds since 2025-01-01T00:00:00Z; the calendar is  *)
(* the real calendar of 2025.  A JavaScript string is a sequence of        *)
(* tokens: a user character, a "YYYY-MM-DD" date, a decimal number or a    *)
(* session id; a CSV line is the token sequence toCSVLine builds and       *)
(* fromCSVLine splits again at every comma token.                          *)
(***************************************************************************)
EXTENDS Integers, Sequences, FiniteSets, TLC

VARIABLES now, tz, stateFile, logFile, last, calls, configDir, procs

vars == <<now, tz, stateFile, logFile, last, calls, configDir, procs>>

(***************************************************************************)
(* Bounds of the model                                                     *)
(***************************************************************************)
\* most calls of an operation in one behaviour
MaxCalls == 2

(***************************************************************************)
(* Strings                                                                 *)
(***************************************************************************)
Tok(k, n, r) == [k |-> k, n |-> n, r |-> r]

Chr(c) == Tok(c, 0, 0)

Comma == Chr(",")

\* "YYYY-MM-DD" of year 2025 with month m and day d (d may exceed the month)
DateStr(m, d) == <<Tok("date", m, d)>>

\* the decimal text of the integer n
NumStr(n) == <<Tok("num", n, 0)>>

\* date.toISOString() of the instant t: "2025-MM-DDTHH:mm:ss.sssZ"
ISOString(t) == <<Tok("iso", t, 0)>>

\* JavaScript null and undefined
Null == <<Tok("null", 0, 0)>>

Undefined == <<Tok("undefined", 0, 0)>>

\* !x for a string-or-null value
Falsy(x) == x = <<>> \/ x = Null \/ x = Undefined

Header == <<Tok("project,date,duration_minutes,description,session_id", 0, 0)>>

(***************************************************************************)
(* Calendar of 2025 (day 0 is Wednesday 2025-01-01)                        *)
(***************************************************************************)
SecondsPerDay == 86400

SecondsPerMinute == 60

DaysBeforeMonth == <<0, 31, 59, 90, 120, 151, 181, 212, 243, 273, 304, 334, 365>>

\* the day number of month m, day d, as new Date(y, m - 1, d) normalises it
DayNumber(m, d) == DaysBeforeMonth[m] + d - 1

MonthOf(day) == CHOOSE m \in 1..12 : DaysBeforeMonth[m] <= day /\ day < DaysBeforeMonth[m + 1]

DayOfMonth(day) == day - DaysBeforeMonth[MonthOf(day)] + 1

\* Date.prototype.getDay: 0 is Sunday
GetDay(day) == (3 + day) % 7

\* the local calendar day of instant t
LocalDay(t) == (t + tz) \div SecondsPerDay

\* the UTC calendar day of instant t
UTCDay(t) == t \div SecondsPerDay

\* the instant of local midnight of a day
LocalMidnight(day) == day * SecondsPerDay - tz

\* new Date(0), the Unix epoch, 20089 days before 2025-01-01
UnixEpoch == 0 - 20089 * SecondsPerDay

\* the time value of an Invalid Date
NaNTime == 0 - 2000000000

\* a null dateForTesting argument
NullDate == 0 - 2000000001

(***************************************************************************)
(* JavaScript numbers passed as a duration: i + f/2 with f in {0, 1}, or   *)
(* undefined, null, or a value for which isNaN is true                     *)
(***************************************************************************)
Num(i, f) == [k |-> "number", i |-> i, f |-> f]

NotANumber == [k |-> "NaN", i |-> 0, f |-> 0]

UndefinedNumber == [k |-> "undefined", i |-> 0, f |-> 0]

NullNumber == [k |-> "null", i |-> 0, f |-> 0]

\* isNaN(v): isNaN(undefined) is true, isNaN(null) is false
IsNaN(v) == v.k \in {"NaN", "undefined"}

\* v <= 0 for a number
LeqZero(v) == v.i < 0 \/ (v.i = 0 /\ v.f = 0)

\* parseInt(v) of a number: its decimal text up to the point
ParseIntOfNumber(v) ==
  IF v.k # "number" THEN [nan |-> TRUE, v |-> 0]
  ELSE [nan |-> FALSE, v |-> IF v.i < 0 /\ v.f = 1 THEN v.i + 1 ELSE v.i]

\* parseInt(s) of a string: the leading decimal number of the text
ParseIntOfString(s) ==
  IF s = <<>> THEN [nan |-> TRUE, v |-> 0]
  ELSE IF s[1].k = "num" THEN [nan |-> FALSE, v |-> s[1].n]
  ELSE IF s[1].k \in {"date", "iso"} THEN [nan |-> FALSE, v |-> 2025]
  ELSE [nan |-> TRUE, v |-> 0]

\* Math.round(x / (1000 * 60)) for a difference of x seconds
RoundMinutes(x) == (2 * x + SecondsPerMinute) \div (2 * SecondsPerMinute)

(***************************************************************************)
(* DateUtils                                                               *)
(***************************************************************************)
\* new Date(s): of a date-only ISO string midnight UTC of that day, of a
\* full ISO timestamp its instant, of other text an Invalid Date
NewDateFromString(s) ==
  IF Len(s) = 1 /\ s[1].k = "date" /\ s[1].n \in 1..12 /\ s[1].r \in 1..31
  THEN DayNumber(s[1].n, s[1].r) * SecondsPerDay
  ELSE IF Len(s) = 1 /\ s[1].k = "iso" THEN s[1].n
  ELSE NaNTime

\* date.toISOString().split('T')[0]: the UTC calendar date
ISODate(t) == DateStr(MonthOf(UTCDay(t)), DayOfMonth(UTCDay(t)))

formatForStorage(t) == DateStr(MonthOf(LocalDay(t)), DayOfMonth(LocalDay(t)))

\* /^\d{4}-\d{2}-\d{2}$/.test(s)
MatchesDateFormat(s) == Len(s) = 1 /\ s[1].k = "date"

parseFromStorage(s) ==
  IF MatchesDateFormat(s)
  THEN LocalMidnight(DayNumber(s[1].n, s[1].r))
  ELSE NewDateFromString(s)

startOfDay(t) == LocalMidnight(LocalDay(t))

startOfWeek(t) == LocalMidnight(LocalDay(t) - GetDay(LocalDay(t)))

startOfMonth(t) == LocalMidnight(DayNumber(MonthOf(LocalDay(t)), 1))

ValidPeriods == {"day", "week", "month", "all"}

getCutoffDateForPeriod(period, referenceDate) ==
  CASE period = "all" -> UnixEpoch
    [] period = "day" -> startOfDay(referenceDate)
    [] period = "week" -> startOfWeek(referenceDate)
    [] period = "month" -> startOfMonth(referenceDate)

\* variant: the format is tested, the round trip through the calendar is not
parseWithoutRoundTrip(dateOption) ==
  IF Falsy(dateOption) THEN [err |-> "", t |-> now]
  ELSE IF ~MatchesDateFormat(dateOption)
    THEN [err |-> "Invalid date format. Use YYYY-MM-DD format.", t |-> 0]
  ELSE [err |-> "", t |-> parseFromStorage(dateOption)]

\* the result of parseAndValidateDateOption: an instant or an error
parseAndValidateDateOption(dateOption) ==
  IF Falsy(dateOption) THEN [err |-> "", t |-> now]
  ELSE IF ~MatchesDateFormat(dateOption)
    THEN [err |-> "Invalid date format. Use YYYY-MM-DD format.", t |-> 0]
  ELSE IF parseFromStorage(dateOption) = NaNTime
          \/ formatForStorage(parseFromStorage(dateOption)) # dateOption
    THEN [err |-> "Invalid date format. Use YYYY-MM-DD format.", t |-> 0]
  ELSE [err |-> "", t |-> parseFromStorage(dateOption)]

(***************************************************************************)
(* TimeCalculator                                                          *)
(***************************************************************************)
\* variant: rounding to the nearest 10 minutes
roundToNearest10(minutes) ==
  IF minutes < 5 THEN 0 ELSE ((minutes + 5) \div 10) * 10

\* variant: the upper boundary of each bucket is exclusive
roundWithExclusiveBoundaries(minutes) ==
  IF minutes < 8 THEN 0
  ELSE LET remainder == minutes % 60
           hours == minutes \div 60
       IN  IF remainder < 22 THEN hours * 60 + 15
           ELSE IF remainder < 37 THEN hours * 60 + 30
           ELSE IF remainder < 52 THEN hours * 60 + 45
           ELSE (hours + 1) * 60

roundToNearest15(minutes) ==
  IF minutes < 8 THEN 0
  ELSE LET remainder == minutes % 60
           hours == minutes \div 60
       IN  IF remainder <= 22 THEN hours * 60 + 15
           ELSE IF remainder <= 37 THEN hours * 60 + 30
           ELSE IF remainder <= 52 THEN hours * 60 + 45
           ELSE (hours + 1) * 60

(***************************************************************************)
(* SessionEntry                                                            *)
(***************************************************************************)
\* new SessionEntry(project, date, duration, description, sessionId,
\* originalLine): the date string is parsed by new Date, the duration by
\* parseInt
SessionEntry(project, date, duration, description, sessionId, originalLine) ==
  [project |-> project,
   date |-> NewDateFromString(date),
   duration |-> ParseIntOfNumber(duration).v,
   description |-> description,
   sessionId |-> sessionId,
   originalLine |-> originalLine]

\* SessionEntry.generateSessionId(type): `${type}_${Date.now()}_${random}`
generateSessionId(type, random) == <<Tok(type, now, random)>>

\* sessionId?.startsWith(prefix + '_')
HasPrefix(sessionId, type) == Len(sessionId) >= 1 /\ sessionId[1].k = type

\* line.split(','): the parts of s from position i on, cur being the part
\* collected so far
RECURSIVE SplitFrom(_, _, _)
SplitFrom(s, i, cur) ==
  IF i > Len(s) THEN <<cur>>
  ELSE IF s[i] = Comma THEN <<cur>> \o SplitFrom(s, i + 1, <<>>)
  ELSE SplitFrom(s, i + 1, Append(cur, s[i]))

Split(s) == SplitFrom(s, 1, <<>>)

\* const [a, b, c, d, e] = parts: a missing element is undefined
Part(parts, i) == IF i <= Len(parts) THEN parts[i] ELSE Undefined

\* description || '' in toCSVLine
OrEmpty(x) == IF Falsy(x) THEN <<>> ELSE x

toCSVLine(entry) ==
  entry.project \o <<Comma>> \o ISODate(entry.date) \o <<Comma>>
    \o NumStr(entry.duration) \o <<Comma>> \o OrEmpty(entry.description)
    \o <<Comma>> \o OrEmpty(entry.sessionId)

\* SessionEntry.fromCSVLine(line): <<entry>>, or <<>> where the code
\* returns null
fromCSVLine(line) ==
  IF line = <<>> THEN <<>>
  ELSE LET parts == Split(line)
           project == Part(parts, 1)
           date == Part(parts, 2)
           duration == Part(parts, 3)
           description == Part(parts, 4)
           sessionId == Part(parts, 5)
           durationNum == ParseIntOfString(duration)
       IN  IF Falsy(project) \/ Falsy(date) \/ Falsy(duration) THEN <<>>
           ELSE IF durationNum.nan \/ durationNum.v <= 0 THEN <<>>
           ELSE <<SessionEntry(project, date, Num(durationNum.v, 0),
                               IF description = <<>> THEN Null ELSE description,
                               IF sessionId = <<>> THEN Null ELSE sessionId,
                               line)>>

\* entry.isWithinDateRange(cutoffDate): a comparison with an Invalid Date
\* is false
isWithinDateRange(entry, cutoffDate) ==
  entry.date # NaNTime /\ cutoffDate # NaNTime /\ entry.date >= cutoffDate

(***************************************************************************)
(* FileManager: the files are values, the operations functions on them.    *)
(* The state file is <<>> when missing and <<state>> when present; the     *)
(* log file is the sequence of its lines, the header line first.           *)
(***************************************************************************)
\* the comparator (a, b) => a.date - b.date is negative
DateBefore(a, b) == a.date # NaNTime /\ b.date # NaNTime /\ a.date - b.date < 0

\* the place of e in the sorted sequence s: after every element that is
\* not later than e (Array.prototype.sort is stable)
RECURSIVE InsertSorted(_, _)
InsertSorted(s, e) ==
  IF s = <<>> THEN <<e>>
  ELSE IF DateBefore(e, s[Len(s)])
       THEN Append(InsertSorted(SubSeq(s, 1, Len(s) - 1), e), s[Len(s)])
       ELSE Append(s, e)

RECURSIVE SortByDate(_)
SortByDate(s) ==
  IF s = <<>> THEN <<>>
  ELSE InsertSorted(SortByDate(SubSeq(s, 1, Len(s) - 1)), s[Len(s)])

RECURSIVE ParseLines(_)
ParseLines(lines) ==
  IF lines = <<>> THEN <<>>
  ELSE fromCSVLine(Head(lines)) \o ParseLines(Tail(lines))

\* readAllLogEntries: the first line is skipped as the header
readAllLogEntries(file) ==
  IF file = <<>> THEN <<>> ELSE SortByDate(ParseLines(Tail(file)))

\* entry.originalLine ?? entry.toCSVLine()
LineOf(entry) == IF entry.originalLine = Null THEN toCSVLine(entry) ELSE entry.originalLine

\* writeLogEntries: header + lines.join('\n') + '\n'; with no entry the
\* join is empty and the file ends in one empty line
writeLogEntries(entries) ==
  IF entries = <<>> THEN <<Header, <<>>>>
  ELSE <<Header>> \o [i \in 1..Len(entries) |-> LineOf(entries[i])]

appendLogEntry(file, entry) == Append(file, toCSVLine(entry))

\* what readState returns for a missing file: null, of which ?.project is
\* undefined
NullState == [project |-> Undefined, startTime |-> 0, description |-> Undefined, sessionId |-> Undefined]

readState(file) == IF file = <<>> THEN NullState ELSE file[1]

\* the content of a state file that is not JSON
Unparseable ==
  [project |-> <<Tok("not JSON", 0, 0)>>, startTime |-> 0,
   description |-> Undefined, sessionId |-> Undefined]

\* the error readState throws, "" for none: JSON.parse throws a SyntaxError,
\* whose code is not 'ENOENT'
readStateError(file) ==
  IF file = <<Unparseable>> THEN "Failed to read state file: Unexpected token"
  ELSE ""

saveState(state) == <<state>>

clearState == <<>>

(***************************************************************************)
(* TimeCalculator.filterEntriesByPeriod                                    *)
(***************************************************************************)
RECURSIVE FilterWithin(_, _)
FilterWithin(entries, cutoffDate) ==
  IF entries = <<>> THEN <<>>
  ELSE (IF isWithinDateRange(Head(entries), cutoffDate) THEN <<Head(entries)>> ELSE <<>>)
         \o FilterWithin(Tail(entries), cutoffDate)

\* dateForTesting is an instant, or NullDate (then new Date() is taken)
filterEntriesByPeriod(entries, period, dateForTesting) ==
  IF period = "all" THEN entries
  ELSE FilterWithin(entries,
         getCutoffDateForPeriod(period,
           IF dateForTesting = NullDate THEN now ELSE dateForTesting))

(***************************************************************************)
(* Inputs                                                                  *)
(***************************************************************************)
P == <<Chr("p")>>

Q == <<Chr("q")>>

\* a description with a comma in it: "d,e"
D == <<Chr("d"), Comma, Chr("e")>>

\* a row written by hand, without description and session id:
\* "p,2025-08-16,30,,"
HandWritten == P \o <<Comma>> \o DateStr(8, 16) \o <<Comma>> \o NumStr(30) \o <<Comma, Comma>>

\* the log file a new TimeTracker finds: only the header, or a file the
\* user edited, here with the same row twice
InitialLogs == {<<Header>>, <<Header, HandWritten, HandWritten>>}

\* 2025-08-16T23:30:00Z, a Saturday
T0 == DayNumber(8, 16) * SecondsPerDay + 23 * 3600 + 1800

\* the instants the clock takes: T0, 30 s later and 50 min later
Instants == {T0, T0 + 30, T0 + 3000}

\* local time is UTC + tz seconds: UTC-5 and UTC+2
Offsets == {0 - 18000, 7200}

\* start <project> [description]: the last one lacks the project
StartArgs == {<<P, Null>>, <<Q, D>>, <<Undefined, Null>>}

\* log <project> <duration> [description] [--day]: the calls log accepts
\* (30 minutes, and 0.5 minutes, a number that is no integer) ...
LogAccepted ==
  {<<P, Num(30, 0), Null, Undefined>>,
   <<P, Num(30, 0), D, DateStr(8, 16)>>,
   <<P, Num(0, 1), Null, Undefined>>}

\* ... and the calls it rejects: no project, no duration, a duration that
\* is not a number, zero, negative, the day 2025-02-30
LogRejected ==
  {<<Undefined, Num(30, 0), Null, Undefined>>,
   <<P, UndefinedNumber, Null, Undefined>>,
   <<P, NotANumber, Null, Undefined>>,
   <<P, Num(0, 0), Null, Undefined>>,
   <<P, Num(0 - 30, 0), Null, Undefined>>,
   <<P, Num(30, 0), Null, DateStr(2, 30)>>}

LogArgs == LogAccepted \cup LogRejected

DeletePeriods == {"all", "day"}

\* delete <index>: below the range, and in it or above it
DeleteIndexes == {0, 1, 2}

\* the suffixes Math.random() gives a session id
Randoms == {0, 1}

(***************************************************************************)
(* The record of the last call: its arguments, the files before it, and    *)
(* its outcome (err is the message of the error thrown, "" for none; n is  *)
(* the length of the view an index is checked against, view the entries    *)
(* a query returned or a deletion reported, lastOnly the option last, arg  *)
(* and result the argument and the value of a function that was applied)   *)
(***************************************************************************)
Call(op) ==
  [op |-> op, err |-> "", at |-> now, preState |-> stateFile, preLog |-> logFile,
   project |-> Undefined, description |-> Null, duration |-> UndefinedNumber,
   day |-> Undefined, noRound |-> FALSE, random |-> 0, index |-> 0,
   period |-> "all", dateForTesting |-> NullDate, n |-> 0, view |-> <<>>,
   lastOnly |-> FALSE, arg |-> <<>>, result |-> <<>>]

\* the positions of the steps that run concurrently with a call (the
\* initialization the constructor starts, a call of another process), what
\* the other process holds in memory, and what the run found; one call at
\* a time, after the initialization, is NoProcs
NoProcs ==
  [initialize |-> "done", operation |-> "done", remover |-> "done", appender |-> "done",
   entries |-> <<>>, appended |-> <<>>, between |-> FALSE,
   dirFound |-> TRUE, logFound |-> <<>>]

Init ==
  /\ now = T0
  /\ tz \in Offsets
  /\ stateFile = <<>>
  /\ logFile \in InitialLogs
  /\ last = Call("new")
  /\ calls = 0
  /\ configDir = TRUE
  /\ procs = NoProcs

(***************************************************************************)
(* TimeTracker                                                             *)
(***************************************************************************)
\* the minutes a session is logged with: Math.round of the elapsed
\* minutes, rounded to 15 unless options.noRound
durationMinutes(currentState) == RoundMinutes(now - currentState.startTime)

finalDuration(currentState, noRound) ==
  IF noRound THEN durationMinutes(currentState)
  ELSE roundToNearest15(durationMinutes(currentState))

\* the entry stop and #autoStop build from the session state
sessionEntryOf(currentState, noRound) ==
  SessionEntry(currentState.project, ISODate(currentState.startTime),
               Num(finalDuration(currentState, noRound), 0),
               currentState.description, currentState.sessionId, Null)

\* variant: the previous session is logged with its unrounded minutes
autoStopUnrounded(file, currentState, noRound) ==
  IF durationMinutes(currentState) > 0
  THEN appendLogEntry(file, sessionEntryOf(currentState, TRUE))
  ELSE file

\* #autoStop: the log file after it
autoStop(file, currentState, noRound) ==
  IF finalDuration(currentState, noRound) > 0
  THEN appendLogEntry(file, sessionEntryOf(currentState, noRound))
  ELSE file

\* the state start saves
newState(project, description, random) ==
  [project |-> project, startTime |-> now, description |-> description,
   sessionId |-> generateSessionId("sess", random)]

\* the log file after start
logAfterStart(noRound) ==
  IF Falsy(readState(stateFile).project) THEN logFile
  ELSE autoStop(logFile, readState(stateFile), noRound)

\* start(project, description, options)
Start(project, description, noRound, random) ==
  IF Falsy(project)
  THEN /\ last' = [Call("start") EXCEPT !.err = "Project name is required",
                                        !.project = project]
       /\ UNCHANGED <<now, tz, stateFile, logFile>>
  ELSE IF readStateError(stateFile) # ""
  THEN /\ last' = [Call("start") EXCEPT !.err = readStateError(stateFile),
                                        !.project = project]
       /\ UNCHANGED <<now, tz, stateFile, logFile>>
  ELSE /\ logFile' = logAfterStart(noRound)
       /\ stateFile' = saveState(newState(project, description, random))
       /\ last' = [Call("start") EXCEPT !.project = project, !.description = description,
                                        !.noRound = noRound, !.random = random]
       /\ UNCHANGED <<now, tz>>

\* variant: the entry is appended whatever its duration
logAfterStopAlways(noRound) ==
  appendLogEntry(logFile, sessionEntryOf(readState(stateFile), noRound))

\* the log file after a stop that found a session
logAfterStop(noRound) ==
  IF finalDuration(readState(stateFile), noRound) > 0
  THEN appendLogEntry(logFile, sessionEntryOf(readState(stateFile), noRound))
  ELSE logFile

\* variant: the state is cleared only when an entry was appended
StopKeepsStateWhenNothingLogged(noRound) ==
  IF readStateError(stateFile) # ""
  THEN /\ last' = [Call("stop") EXCEPT !.err = readStateError(stateFile)]
       /\ UNCHANGED <<now, tz, stateFile, logFile>>
  ELSE IF Falsy(readState(stateFile).project)
  THEN /\ last' = [Call("stop") EXCEPT !.err = "No active tracking session found"]
       /\ UNCHANGED <<now, tz, stateFile, logFile>>
  ELSE /\ logFile' = logAfterStop(noRound)
       /\ stateFile' = IF logAfterStop(noRound) = logFile THEN stateFile ELSE clearState
       /\ last' = [Call("stop") EXCEPT !.noRound = noRound]
       /\ UNCHANGED <<now, tz>>

\* variant: without a session, stop returns and rewrites the state file
StopSilentlyWhenIdle(noRound) ==
  IF readStateError(stateFile) # ""
  THEN /\ last' = [Call("stop") EXCEPT !.err = readStateError(stateFile)]
       /\ UNCHANGED <<now, tz, stateFile, logFile>>
  ELSE IF Falsy(readState(stateFile).project)
  THEN /\ stateFile' = clearState
       /\ last' = [Call("stop") EXCEPT !.noRound = noRound]
       /\ UNCHANGED <<now, tz, logFile>>
  ELSE /\ logFile' = logAfterStop(noRound)
       /\ stateFile' = clearState
       /\ last' = [Call("stop") EXCEPT !.noRound = noRound]
       /\ UNCHANGED <<now, tz>>

\* stop(options)
Stop(noRound) ==
  IF readStateError(stateFile) # ""
  THEN /\ last' = [Call("stop") EXCEPT !.err = readStateError(stateFile)]
       /\ UNCHANGED <<now, tz, stateFile, logFile>>
  ELSE IF Falsy(readState(stateFile).project)
  THEN /\ last' = [Call("stop") EXCEPT !.err = "No active tracking session found"]
       /\ UNCHANGED <<now, tz, stateFile, logFile>>
  ELSE /\ logFile' = logAfterStop(noRound)
       /\ stateFile' = clearState
       /\ last' = [Call("stop") EXCEPT !.noRound = noRound]
       /\ UNCHANGED <<now, tz>>

\* variant: the entry is dated with the UTC date of the target instant
manualEntryUTCDate(projectName, duration, description, targetDate, random) ==
  SessionEntry(projectName, ISODate(targetDate), duration, description,
               generateSessionId("manual", random), Null)

\* the entry log builds
manualEntry(projectName, duration, description, targetDate, random) ==
  SessionEntry(projectName, formatForStorage(targetDate), duration, description,
               generateSessionId("manual", random), Null)

\* the error log throws for its arguments, "" when it accepts them
logError(projectName, duration, day) ==
  IF Falsy(projectName) THEN "Project name is required"
  ELSE IF duration.k \in {"undefined", "null"} \/ IsNaN(duration)
    THEN "Duration in minutes is required and must be a number"
  ELSE IF LeqZero(duration) THEN "Duration must be positive"
  ELSE parseAndValidateDateOption(day).err

\* log(projectName, duration, description, options)
Log(projectName, duration, description, day, random) ==
  LET call == [Call("log") EXCEPT !.project = projectName, !.duration = duration,
                                  !.description = description, !.day = day]
  IN  IF logError(projectName, duration, day) # ""
      THEN /\ last' = [call EXCEPT !.err = logError(projectName, duration, day)]
           /\ UNCHANGED <<now, tz, stateFile, logFile>>
      ELSE /\ logFile' = appendLogEntry(logFile,
                 manualEntry(projectName, duration, description,
                             parseAndValidateDateOption(day).t, random))
           /\ last' = [call EXCEPT !.random = random]
           /\ UNCHANGED <<now, tz, stateFile>>

\* the filter of deleteEntry: the entries that are kept
RECURSIVE KeepOthers(_, _)
KeepOthers(entries, entryToDelete) ==
  IF entries = <<>> THEN <<>>
  ELSE LET entry == Head(entries)
           keep == IF ~Falsy(entryToDelete.originalLine) /\ ~Falsy(entry.originalLine)
                   THEN entry.originalLine # entryToDelete.originalLine
                   ELSE ~(/\ entry.project = entryToDelete.project
                          /\ entry.date = entryToDelete.date
                          /\ entry.date # NaNTime
                          /\ entry.duration = entryToDelete.duration)
       IN  (IF keep THEN <<entry>> ELSE <<>>) \o KeepOthers(Tail(entries), entryToDelete)

\* the period-filtered view deleteEntry and getLogEntriesForPeriod index
entriesForPeriod(period, dateForTesting) ==
  filterEntriesByPeriod(readAllLogEntries(logFile), period, dateForTesting)

\* variant: an index beyond the view is accepted and deletes nothing
DeleteEntryIgnoringRange(index, period, dateForTesting) ==
  LET call == [Call("deleteEntry") EXCEPT !.index = index, !.period = period,
                  !.dateForTesting = dateForTesting,
                  !.n = Len(entriesForPeriod(period, dateForTesting))]
  IN  IF index < 1
      THEN /\ last' = [call EXCEPT !.err = "Invalid index. Use a number between 1 and n"]
           /\ UNCHANGED <<now, tz, stateFile, logFile>>
      ELSE IF index > Len(entriesForPeriod(period, dateForTesting))
      THEN /\ logFile' = writeLogEntries(readAllLogEntries(logFile))
           /\ last' = call
           /\ UNCHANGED <<now, tz, stateFile>>
      ELSE /\ logFile' = writeLogEntries(
                 KeepOthers(readAllLogEntries(logFile),
                            entriesForPeriod(period, dateForTesting)[index]))
           /\ last' = call
           /\ UNCHANGED <<now, tz, stateFile>>

\* deleteEntry(index, period, dateForTesting, options), index a number
DeleteEntry(index, period, dateForTesting) ==
  LET call == [Call("deleteEntry") EXCEPT !.index = index, !.period = period,
                  !.dateForTesting = dateForTesting,
                  !.n = Len(entriesForPeriod(period, dateForTesting))]
  IN  IF index < 1 \/ index > Len(entriesForPeriod(period, dateForTesting))
      THEN /\ last' = [call EXCEPT !.err = "Invalid index. Use a number between 1 and n"]
           /\ UNCHANGED <<now, tz, stateFile, logFile>>
      ELSE /\ logFile' = writeLogEntries(
                 KeepOthers(readAllLogEntries(logFile),
                            entriesForPeriod(period, dateForTesting)[index]))
           /\ last' = call
           /\ UNCHANGED <<now, tz, stateFile>>

\* time passes between two calls
Advance ==
  /\ \E t \in Instants : t > now /\ now' = t
  /\ UNCHANGED <<tz, stateFile, logFile, last, calls, configDir, procs>>

\* one more call is made
Counted == calls < MaxCalls /\ calls' = calls + 1 /\ UNCHANGED <<configDir, procs>>

Next ==
  \/ Counted /\ \E a \in StartArgs, noRound \in BOOLEAN, random \in Randoms :
                  Start(a[1], a[2], noRound, random)
  \/ Counted /\ \E noRound \in BOOLEAN : Stop(noRound)
  \/ Counted /\ \E a \in LogArgs, random \in Randoms :
                  Log(a[1], a[2], a[3], a[4], random)
  \/ Counted /\ \E index \in DeleteIndexes, period \in DeletePeriods :
                  DeleteEntry(index, period, NullDate)
  \/ Advance

Spec == Init /\ [][Next]_vars

(***************************************************************************)
(* The period views: entries logged for chosen days, read through            *)
(* getLogEntriesForPeriod at chosen reference instants                       *)
(***************************************************************************)
\* getLogEntriesForPeriod(period, dateForTesting)
GetLogEntriesForPeriod(period, dateForTesting) ==
  /\ last' = [Call("getLogEntriesForPeriod") EXCEPT
                !.period = period, !.dateForTesting = dateForTesting,
                !.view = filterEntriesByPeriod(readAllLogEntries(logFile),
                                               period, dateForTesting)]
  /\ UNCHANGED <<now, tz, stateFile, logFile, calls, configDir, procs>>

\* the days entries are logged for: around the turn of the month, the
\* Sunday of the week and the reference day
FilterDays == {DateStr(7, 31), DateStr(8, 1), DateStr(8, 9), DateStr(8, 10),
               DateStr(8, 15), DateStr(8, 16)}

\* reference instants on 2025-08-16 (UTC): 03:00, 14:00 and 23:59
FilterReferences == {DayNumber(8, 16) * SecondsPerDay + 3 * 3600,
                     DayNumber(8, 16) * SecondsPerDay + 14 * 3600,
                     DayNumber(8, 16) * SecondsPerDay + 23 * 3600 + 59 * 60}

\* local timezones: UTC-5, UTC, UTC+2
FilterOffsets == {0 - 18000, 0, 7200}

FilterInit ==
  /\ now = T0
  /\ tz \in FilterOffsets
  /\ stateFile = <<>>
  /\ logFile = <<Header>>
  /\ last = Call("new")
  /\ calls = 0
  /\ configDir = TRUE
  /\ procs = NoProcs

FilterNext ==
  \/ Counted /\ \E day \in FilterDays : Log(P, Num(30, 0), Null, day, 0)
  \/ \E period \in ValidPeriods \ {"all"}, ref \in FilterReferences :
       GetLogEntriesForPeriod(period, ref)

FilterSpec == FilterInit /\ [][FilterNext]_vars

(***************************************************************************)
(* Project filters, ProjectManager and the summary                         *)
(***************************************************************************)
\* the lower-case letter of each upper-case letter used
LowerOf == [P |-> "p", Q |-> "q", X |-> "x"]

\* s.toLowerCase()
toLowerCase(s) ==
  [i \in 1..Len(s) |->
     IF s[i].k \in DOMAIN LowerOf THEN [s[i] EXCEPT !.k = LowerOf[s[i].k]] ELSE s[i]]

\* s.includes(sub)
includes(s, sub) ==
  \E i \in 0..(Len(s) - Len(sub)) : SubSeq(s, i + 1, i + Len(sub)) = sub

\* entry.matchesProject(projectFilter)
matchesProject(entry, projectFilter) ==
  IF Falsy(projectFilter) THEN TRUE
  ELSE includes(toLowerCase(entry.project), toLowerCase(projectFilter))

\* TimeCalculator.filterEntriesByProject(entries, projectFilter)
filterEntriesByProject(entries, projectFilter) ==
  IF Falsy(projectFilter) THEN entries
  ELSE SelectSeq(entries, LAMBDA entry : matchesProject(entry, projectFilter))

\* deleteProject: matchingEntries
matchingEntries(allEntries, projectName) ==
  SelectSeq(allEntries,
            LAMBDA entry : toLowerCase(entry.project) = toLowerCase(projectName))

\* variant: the entries whose project does not contain the name are kept
remainingNotContaining(allEntries, projectName) ==
  SelectSeq(allEntries,
            LAMBDA entry : ~includes(toLowerCase(entry.project),
                                     toLowerCase(projectName)))

\* deleteProject: remainingEntries
remainingAfterDeleteProject(allEntries, projectName) ==
  SelectSeq(allEntries,
            LAMBDA entry : toLowerCase(entry.project) # toLowerCase(projectName))

\* deleteProject(projectName): the error it throws, "" for none
deleteProjectError(file, projectName) ==
  IF matchingEntries(readAllLogEntries(file), projectName) = <<>>
  THEN "Project \"name\" not found" ELSE ""

\* deleteProject(projectName): the log file after it
logAfterDeleteProject(file, projectName) ==
  IF deleteProjectError(file, projectName) # "" THEN file
  ELSE writeLogEntries(remainingAfterDeleteProject(readAllLogEntries(file), projectName))

\* the options of deleteByProject
Options(project, lastOnly, today, week, month) ==
  [project |-> project, last |-> lastOnly, today |-> today, week |-> week,
   month |-> month]

\* deleteByProject: period
periodOfOptions(options) ==
  IF options.today THEN "day" ELSE IF options.week THEN "week" ELSE "month"

\* deleteByProject: entriesToDelete after the project filter
projectCandidates(allEntries, options) ==
  IF Falsy(options.project) THEN allEntries
  ELSE filterEntriesByProject(allEntries, options.project)

\* deleteByProject: entriesToDelete after the time-based filters
entriesToDelete(allEntries, options) ==
  IF options.last
  THEN <<projectCandidates(allEntries, options)[
           Len(projectCandidates(allEntries, options))]>>
  ELSE IF options.today \/ options.week \/ options.month
  THEN filterEntriesByPeriod(projectCandidates(allEntries, options),
                             periodOfOptions(options), now)
  ELSE projectCandidates(allEntries, options)

\* variant: an empty period is no error
deleteByProjectErrorBeforePeriod(file, options) ==
  IF readAllLogEntries(file) = <<>> THEN "No log entries found"
  ELSE IF projectCandidates(readAllLogEntries(file), options) = <<>>
    THEN "No entries found for project matching: project"
  ELSE ""

\* deleteByProject: the error it throws, "" for none
deleteByProjectError(file, options) ==
  IF readAllLogEntries(file) = <<>> THEN "No log entries found"
  ELSE IF projectCandidates(readAllLogEntries(file), options) = <<>>
    THEN "No entries found for project matching: project"
  ELSE IF entriesToDelete(readAllLogEntries(file), options) = <<>>
    THEN "No entries found timeRange projectFilter"
  ELSE ""

\* deleteByProject: remainingEntries
remainingAfterDeleteBy(allEntries, toDelete) ==
  SelectSeq(allEntries,
    LAMBDA entry :
      ~\E i \in 1..Len(toDelete) :
         \/ toDelete[i].originalLine = entry.originalLine
         \/ /\ toDelete[i].project = entry.project
            /\ toDelete[i].date = entry.date
            /\ entry.date # NaNTime
            /\ toDelete[i].duration = entry.duration)

\* deleteByProject(options): the log file after it
logAfterDeleteByProject(file, options) ==
  IF deleteByProjectError(file, options) # "" THEN file
  ELSE writeLogEntries(
         remainingAfterDeleteBy(readAllLogEntries(file),
                                entriesToDelete(readAllLogEntries(file), options)))

\* Formatter.deletion: totalMinutes
RECURSIVE totalMinutesOf(_)
totalMinutesOf(entries) ==
  IF entries = <<>> THEN 0 ELSE Head(entries).duration + totalMinutesOf(Tail(entries))

\* variant: a project's total is the duration of its latest entry
RECURSIVE projectTotalsKeepingLast(_)
projectTotalsKeepingLast(entries) ==
  IF entries = <<>> THEN <<>>
  ELSE LET before == projectTotalsKeepingLast(SubSeq(entries, 1, Len(entries) - 1))
           entry == entries[Len(entries)]
       IN  IF \E i \in 1..Len(before) : before[i].name = entry.project
           THEN [i \in 1..Len(before) |->
                   IF before[i].name = entry.project
                   THEN [before[i] EXCEPT !.minutes = entry.duration]
                   ELSE before[i]]
           ELSE Append(before, [name |-> entry.project, minutes |-> entry.duration])

\* Formatter.summary: projectTotals, the projects in the order they first
\* occur
RECURSIVE projectTotals(_)
projectTotals(entries) ==
  IF entries = <<>> THEN <<>>
  ELSE LET before == projectTotals(SubSeq(entries, 1, Len(entries) - 1))
           entry == entries[Len(entries)]
       IN  IF \E i \in 1..Len(before) : before[i].name = entry.project
           THEN [i \in 1..Len(before) |->
                   IF before[i].name = entry.project
                   THEN [before[i] EXCEPT !.minutes = @ + entry.duration]
                   ELSE before[i]]
           ELSE Append(before, [name |-> entry.project, minutes |-> entry.duration])

\* sort((a, b) => b - a) of the totals: descending, equal totals in their order
RECURSIVE InsertDescending(_, _)
InsertDescending(sorted, group) ==
  IF sorted = <<>> THEN <<group>>
  ELSE IF Head(sorted).minutes < group.minutes THEN <<group>> \o sorted
  ELSE <<Head(sorted)>> \o InsertDescending(Tail(sorted), group)

RECURSIVE SortDescending(_)
SortDescending(groups) ==
  IF groups = <<>> THEN <<>>
  ELSE InsertDescending(SortDescending(SubSeq(groups, 1, Len(groups) - 1)),
                        groups[Len(groups)])

\* Formatter.summary(entries, period, options): the groups and the total
summaryOf(entries) ==
  [projects |-> SortDescending(projectTotals(entries)),
   total_minutes |-> totalMinutesOf(entries)]

\* summary: filteredEntries
summaryEntries(period, dateForTesting, project) ==
  IF Falsy(project)
  THEN filterEntriesByPeriod(readAllLogEntries(logFile), period, dateForTesting)
  ELSE filterEntriesByProject(
         filterEntriesByPeriod(readAllLogEntries(logFile), period, dateForTesting),
         project)

(***************************************************************************)
(* ProjectHierarchy                                                        *)
(***************************************************************************)
Slash == Chr("/")

\* project.split('/')
RECURSIVE SplitAtSlash(_, _, _)
SplitAtSlash(s, i, cur) ==
  IF i > Len(s) THEN <<cur>>
  ELSE IF s[i] = Slash THEN <<cur>> \o SplitAtSlash(s, i + 1, <<>>)
  ELSE SplitAtSlash(s, i + 1, Append(cur, s[i]))

\* parseProject(project): the components that are not blank
parseProject(project) ==
  SelectSeq(SplitAtSlash(project, 1, <<>>), LAMBDA part : part # <<>>)

\* parts.join('/')
RECURSIVE JoinWithSlash(_)
JoinWithSlash(parts) ==
  IF parts = <<>> THEN <<>>
  ELSE IF Len(parts) = 1 THEN parts[1]
  ELSE parts[1] \o <<Slash>> \o JoinWithSlash(Tail(parts))

\* getParent(project), Null for none
getParent(project) ==
  IF Len(parseProject(project)) <= 1 THEN Null
  ELSE JoinWithSlash(SubSeq(parseProject(project), 1, Len(parseProject(project)) - 1))

\* isParentOf(parent, child)
isParentOf(parent, child) ==
  /\ parent # child
  /\ Len(parseProject(child)) > Len(parseProject(parent))
  /\ \A i \in 1..Len(parseProject(parent)) :
       parseProject(parent)[i] = parseProject(child)[i]

\* the keys of a stats object, in their order
Keys(stats) == [i \in 1..Len(stats) |-> stats[i].project]

\* key in stats
HasKey(stats, project) == \E i \in 1..Len(stats) : stats[i].project = project

\* stats[key]
AtKey(stats, project) ==
  stats[CHOOSE i \in 1..Len(stats) : stats[i].project = project]

\* hierarchical[parent].children after the second loop: the projects whose
\* parent it is, in the order of the keys
childrenOf(flatStats, parent) ==
  SelectSeq(Keys(flatStats), LAMBDA project : getParent(project) = parent)

\* the direct minutes of the projects, added up
RECURSIVE SumOfDirect(_, _)
SumOfDirect(flatStats, projects) ==
  IF projects = <<>> THEN 0
  ELSE AtKey(flatStats, Head(projects)).totalMinutes
         + SumOfDirect(flatStats, Tail(projects))

\* variant: the total adds the direct minutes of the children only
totalOfDirectChildren(flatStats, project) ==
  AtKey(flatStats, project).totalMinutes
    + SumOfDirect(flatStats, childrenOf(flatStats, project))

\* calculateTotalMinutes(project)
RECURSIVE calculateTotalMinutes(_, _)
RECURSIVE SumOfTotals(_, _)
SumOfTotals(flatStats, projects) ==
  IF projects = <<>> THEN 0
  ELSE calculateTotalMinutes(flatStats, Head(projects))
         + SumOfTotals(flatStats, Tail(projects))

calculateTotalMinutes(flatStats, project) ==
  AtKey(flatStats, project).totalMinutes
    + SumOfTotals(flatStats, childrenOf(flatStats, project))

\* the projects calculateTotalMinutes is started from
isRootIn(flatStats, project) ==
  getParent(project) = Null \/ ~HasKey(flatStats, getParent(project))

\* the projects a total was calculated for: the roots and, through the
\* children, everything below them
RECURSIVE isVisited(_, _)
isVisited(flatStats, project) ==
  \/ isRootIn(flatStats, project)
  \/ isVisited(flatStats, getParent(project))

\* calculateHierarchicalStats(flatStats)
calculateHierarchicalStats(flatStats) ==
  [i \in 1..Len(flatStats) |->
     [project |-> flatStats[i].project,
      children |-> childrenOf(flatStats, flatStats[i].project),
      directMinutes |-> flatStats[i].totalMinutes,
      totalMinutes |-> IF isVisited(flatStats, flatStats[i].project)
                       THEN calculateTotalMinutes(flatStats, flatStats[i].project)
                       ELSE flatStats[i].totalMinutes]]

\* getRootProjects(hierarchicalStats)
getRootProjects(hierarchicalStats) ==
  SelectSeq(Keys(hierarchicalStats),
            LAMBDA project : isRootIn(hierarchicalStats, project))

(***************************************************************************)
(* The hierarchy: calculateHierarchicalStats applied to flat stats maps    *)
(***************************************************************************)
Company == <<Chr("company")>>
Sales == Company \o <<Slash, Chr("sales")>>
RegionA == Sales \o <<Slash, Chr("region-a")>>
RegionB == Sales \o <<Slash, Chr("region-b")>>
Marketing == <<Chr("marketing")>>

\* the projects a flat map may hold, in the order they were first logged
HierarchyProjects == <<Company, Sales, RegionA, RegionB, Marketing>>

\* the minutes a project of the map may have
HierarchyMinutes == {10, 25}

\* the flat map with the chosen projects and their minutes
RECURSIVE FlatStatsFrom(_, _, _)
FlatStatsFrom(i, present, minutes) ==
  IF i > Len(HierarchyProjects) THEN <<>>
  ELSE (IF i \in present
        THEN <<[project |-> HierarchyProjects[i], totalMinutes |-> minutes[i]]>>
        ELSE <<>>) \o FlatStatsFrom(i + 1, present, minutes)

\* the flat maps: every choice of projects and of their minutes
FlatStatsMaps ==
  {FlatStatsFrom(1, present, minutes) :
     present \in SUBSET (1..Len(HierarchyProjects)),
     minutes \in [1..Len(HierarchyProjects) -> HierarchyMinutes]}

\* ProjectHierarchy.calculateHierarchicalStats(flatStats), flatStats being
\* the map the behaviour started with
CalculateHierarchicalStats ==
  /\ last.op = "new"
  /\ last' = [Call("calculateHierarchicalStats") EXCEPT
                !.arg = last.arg, !.result = calculateHierarchicalStats(last.arg)]
  /\ UNCHANGED <<now, tz, stateFile, logFile, calls, configDir, procs>>

HierarchyInit ==
  /\ now = T0
  /\ tz \in Offsets
  /\ stateFile = <<>>
  /\ logFile = <<Header>>
  /\ \E flatStats \in FlatStatsMaps : last = [Call("new") EXCEPT !.arg = flatStats]
  /\ calls = 0
  /\ configDir = TRUE
  /\ procs = NoProcs

HierarchyNext == CalculateHierarchicalStats

HierarchySpec == HierarchyInit /\ [][HierarchyNext]_vars

(***************************************************************************)
(* Projects: entries logged for several projects, deleted by project and   *)
(* summarised                                                              *)
(***************************************************************************)
\* the most entries logged
MaxEntries == 3

UpperP == <<Chr("P")>>
Child == P \o <<Slash, Chr("x")>>
Longer == <<Chr("p"), Chr("q")>>
Nobody == <<Chr("x")>>

\* the entries logged: project, minutes, day, random suffix of the id
ProjectLogArgs ==
  {<<P, 30, Undefined, 0>>, <<P, 30, Undefined, 1>>, <<UpperP, 45, DateStr(8, 15), 0>>,
   <<Child, 20, DateStr(7, 31), 0>>, <<Longer, 10, Undefined, 0>>,
   <<Q, 60, DateStr(8, 15), 0>>}

\* the names given to deleteProject
DeleteProjectNames == {P, UpperP, Child, Nobody}

\* the options given to deleteByProject
DeleteByOptions ==
  {Options(Undefined, TRUE, FALSE, FALSE, FALSE),
   Options(Undefined, FALSE, TRUE, FALSE, FALSE),
   Options(Undefined, FALSE, FALSE, TRUE, FALSE),
   Options(P, FALSE, FALSE, FALSE, FALSE),
   Options(P, TRUE, FALSE, FALSE, FALSE),
   Options(P, TRUE, TRUE, FALSE, FALSE),
   Options(P, FALSE, TRUE, FALSE, TRUE),
   Options(Child, FALSE, FALSE, FALSE, TRUE),
   Options(UpperP, FALSE, FALSE, FALSE, FALSE),
   Options(Nobody, FALSE, FALSE, FALSE, FALSE)}

\* the periods and project filters given to summary
SummaryPeriods == {"all", "month", "day", "year"}
SummaryProjects == {Undefined, P, Q}

\* deleteProject(projectName, options)
\* variant: deleting the project of the running session ends the session
DeleteProjectEndingSession(projectName) ==
  /\ logFile' = logAfterDeleteProject(logFile, projectName)
  /\ last' = [Call("deleteProject") EXCEPT
                !.project = projectName,
                !.err = deleteProjectError(logFile, projectName),
                !.view = matchingEntries(readAllLogEntries(logFile), projectName)]
  /\ stateFile' = IF deleteProjectError(logFile, projectName) = ""
                     /\ stateFile # <<>>
                     /\ toLowerCase(stateFile[1].project) = toLowerCase(projectName)
                  THEN clearState ELSE stateFile
  /\ UNCHANGED <<now, tz, calls, configDir, procs>>

DeleteProject(projectName) ==
  /\ logFile' = logAfterDeleteProject(logFile, projectName)
  /\ last' = [Call("deleteProject") EXCEPT
                !.project = projectName,
                !.err = deleteProjectError(logFile, projectName),
                !.view = matchingEntries(readAllLogEntries(logFile), projectName)]
  /\ UNCHANGED <<now, tz, stateFile, calls, configDir, procs>>

\* deleteByProject(options)
DeleteByProject(options) ==
  /\ logFile' = logAfterDeleteByProject(logFile, options)
  /\ last' = IF deleteByProjectError(logFile, options) # ""
             THEN [Call("deleteByProject") EXCEPT
                     !.arg = options,
                     !.err = deleteByProjectError(logFile, options)]
             ELSE [Call("deleteByProject") EXCEPT
                     !.arg = options,
                     !.view = entriesToDelete(readAllLogEntries(logFile), options),
                     !.result = totalMinutesOf(
                                  entriesToDelete(readAllLogEntries(logFile), options))]
  /\ UNCHANGED <<now, tz, stateFile, calls, configDir, procs>>

\* summary(period, dateForTesting, options)
Summary(period, dateForTesting, project) ==
  /\ last' = IF period \notin ValidPeriods
             THEN [Call("summary") EXCEPT
                     !.period = period, !.dateForTesting = dateForTesting,
                     !.project = project,
                     !.err = "Invalid period. Use: day, week, month, or all"]
             ELSE [Call("summary") EXCEPT
                     !.period = period, !.dateForTesting = dateForTesting,
                     !.project = project,
                     !.view = summaryEntries(period, dateForTesting, project),
                     !.result = summaryOf(summaryEntries(period, dateForTesting, project))]
  /\ UNCHANGED <<now, tz, stateFile, logFile, calls, configDir, procs>>

ProjectInit ==
  /\ now = T0
  /\ tz \in Offsets
  /\ stateFile = <<>>
  /\ logFile = <<Header>>
  /\ last = Call("new")
  /\ calls = 0
  /\ configDir = TRUE
  /\ procs = NoProcs

\* the log holds what log calls wrote, and nothing was asked of it yet
Logging == last.op \in {"new", "log"}

\* entries are logged, then one of the operations is called
ProjectNext ==
  \/ /\ Logging
     /\ Len(readAllLogEntries(logFile)) < MaxEntries
     /\ \E a \in ProjectLogArgs : Log(a[1], Num(a[2], 0), Null, a[3], a[4])
     /\ UNCHANGED <<calls, configDir, procs>>
  \/ Logging /\ \E projectName \in DeleteProjectNames : DeleteProject(projectName)
  \/ Logging /\ \E options \in DeleteByOptions : DeleteByProject(options)
  \/ Logging /\ \E period \in SummaryPeriods, project \in SummaryProjects :
                  Summary(period, NullDate, project)

ProjectSpec == ProjectInit /\ [][ProjectNext]_vars

(***************************************************************************)
(* Rounding: roundToNearest15 applied to the minutes of a session          *)
(***************************************************************************)
\* the longest duration rounded, in minutes
MaxMinutes == 200

\* TimeCalculator.roundToNearest15(minutes)
RoundToNearest15(minutes) ==
  /\ last' = [Call("roundToNearest15") EXCEPT !.arg = minutes,
                                              !.result = roundToNearest15(minutes)]
  /\ UNCHANGED <<now, tz, stateFile, logFile, calls, configDir, procs>>

RoundInit ==
  /\ now = T0
  /\ tz \in Offsets
  /\ stateFile = <<>>
  /\ logFile = <<Header>>
  /\ last = Call("new")
  /\ calls = 0
  /\ configDir = TRUE
  /\ procs = NoProcs

RoundNext == \E minutes \in 0..MaxMinutes : RoundToNearest15(minutes)

RoundSpec == RoundInit /\ [][RoundNext]_vars

(***************************************************************************)
(* The session state and the operations around it: every operation called  *)
(* once, with the state file missing, unparseable or holding a session,    *)
(* and on a disk where appending to the log fails                          *)
(***************************************************************************)
\* Formatter.status(currentState, durationMinutes, {json: true}).status
statusOf(currentState) ==
  IF Falsy(currentState.project)
  THEN [tracking |-> FALSE, project |-> Null, duration_minutes |-> 0]
  ELSE [tracking |-> TRUE, project |-> currentState.project,
        duration_minutes |-> durationMinutes(currentState)]

\* status(options)
Status ==
  /\ last' = IF readStateError(stateFile) # ""
             THEN [Call("status") EXCEPT !.err = readStateError(stateFile)]
             ELSE [Call("status") EXCEPT !.result = statusOf(readState(stateFile))]
  /\ UNCHANGED <<now, tz, stateFile, logFile, calls, configDir, procs>>

\* logs: the session type filter and the description filter
logsFiltered(entries, sessionsOnly, manualOnly, withDescriptions) ==
  SelectSeq(entries,
    LAMBDA entry :
      /\ IF sessionsOnly THEN HasPrefix(entry.sessionId, "sess")
         ELSE IF manualOnly THEN HasPrefix(entry.sessionId, "manual")
         ELSE TRUE
      /\ withDescriptions => ~Falsy(entry.description))

\* logs(period, options, dateForTesting)
Logs(period, sessionsOnly, manualOnly, withDescriptions) ==
  /\ last' = IF period \notin ValidPeriods
             THEN [Call("logs") EXCEPT
                     !.period = period,
                     !.err = "Invalid period. Use: day, week, month, or all"]
             ELSE [Call("logs") EXCEPT
                     !.period = period,
                     !.view = logsFiltered(
                                filterEntriesByPeriod(readAllLogEntries(logFile),
                                                      period, NullDate),
                                sessionsOnly, manualOnly, withDescriptions)]
  /\ UNCHANGED <<now, tz, stateFile, logFile, calls, configDir, procs>>

\* #calculateProjectStats(entries): the projects in the order they first
\* occur
RECURSIVE calculateProjectStats(_)
calculateProjectStats(entries) ==
  IF entries = <<>> THEN <<>>
  ELSE LET before == calculateProjectStats(SubSeq(entries, 1, Len(entries) - 1))
           entry == entries[Len(entries)]
       IN  IF HasKey(before, entry.project)
           THEN [i \in 1..Len(before) |->
                   IF before[i].project = entry.project
                   THEN [project |-> entry.project,
                         totalMinutes |-> before[i].totalMinutes + entry.duration,
                         entryCount |-> before[i].entryCount + 1,
                         lastUsed |-> IF entry.date # NaNTime /\ before[i].lastUsed # NaNTime
                                         /\ entry.date > before[i].lastUsed
                                      THEN entry.date ELSE before[i].lastUsed]
                   ELSE before[i]]
           ELSE Append(before, [project |-> entry.project,
                                totalMinutes |-> entry.duration,
                                entryCount |-> 1,
                                lastUsed |-> entry.date])

\* listProjects(options)
ListProjects ==
  /\ last' = [Call("listProjects") EXCEPT
                !.result = calculateProjectStats(readAllLogEntries(logFile))]
  /\ UNCHANGED <<now, tz, stateFile, logFile, calls, configDir, procs>>

\* export(): the lines printed after the header
Export ==
  /\ last' = [Call("export") EXCEPT
                !.view = [i \in 1..Len(readAllLogEntries(logFile)) |->
                            toCSVLine(readAllLogEntries(logFile)[i])]]
  /\ UNCHANGED <<now, tz, stateFile, logFile, calls, configDir, procs>>

\* the error appendLogEntry throws when fs.appendFile fails
AppendFailed == "Failed to append log entry: ENOSPC"

\* variant: the session state is removed before the entry is appended
StopClearingFirst(noRound) ==
  IF readStateError(stateFile) # "" \/ Falsy(readState(stateFile).project)
     \/ finalDuration(readState(stateFile), noRound) <= 0
  THEN Stop(noRound)
  ELSE /\ last' = [Call("stop") EXCEPT !.noRound = noRound, !.err = AppendFailed]
       /\ stateFile' = clearState
       /\ UNCHANGED <<now, tz, logFile>>

\* stop(options) on a disk where fs.appendFile fails: the error leaves
\* stop before clearState
StopOnFailingDisk(noRound) ==
  IF readStateError(stateFile) # "" \/ Falsy(readState(stateFile).project)
     \/ finalDuration(readState(stateFile), noRound) <= 0
  THEN Stop(noRound)
  ELSE /\ last' = [Call("stop") EXCEPT !.noRound = noRound, !.err = AppendFailed]
       /\ UNCHANGED <<now, tz, stateFile, logFile>>

\* variant: the new session state is saved although the append failed
StartSavingAnyway(project, description, noRound, random) ==
  IF Falsy(project) \/ readStateError(stateFile) # ""
     \/ Falsy(readState(stateFile).project)
     \/ finalDuration(readState(stateFile), noRound) <= 0
  THEN Start(project, description, noRound, random)
  ELSE /\ last' = [Call("start") EXCEPT !.project = project, !.description = description,
                                        !.noRound = noRound, !.random = random,
                                        !.err = AppendFailed]
       /\ stateFile' = saveState(newState(project, description, random))
       /\ UNCHANGED <<now, tz, logFile>>

\* start(project, description, options) on such a disk: the error of
\* #autoStop leaves start before saveState
StartOnFailingDisk(project, description, noRound, random) ==
  IF Falsy(project) \/ readStateError(stateFile) # ""
     \/ Falsy(readState(stateFile).project)
     \/ finalDuration(readState(stateFile), noRound) <= 0
  THEN Start(project, description, noRound, random)
  ELSE /\ last' = [Call("start") EXCEPT !.project = project, !.description = description,
                                        !.noRound = noRound, !.random = random,
                                        !.err = AppendFailed]
       /\ UNCHANGED <<now, tz, stateFile, logFile>>

\* the sessions found: of p, started 50 minutes or 5 minutes ago
Sessions ==
  {[project |-> P, startTime |-> T0 - 3000, description |-> Null,
    sessionId |-> <<Tok("sess", T0 - 3000, 0)>>],
   [project |-> Q, startTime |-> T0 - 300, description |-> D,
    sessionId |-> <<Tok("sess", T0 - 300, 1)>>]}

\* the state files found: missing, not JSON, or a session
StateFiles == {<<>>, <<Unparseable>>} \cup {<<state>> : state \in Sessions}

\* the flags of logs: none, sessionsOnly, manualOnly, withDescriptions
LogsFlags == {<<FALSE, FALSE, FALSE>>, <<TRUE, FALSE, FALSE>>,
              <<FALSE, TRUE, FALSE>>, <<FALSE, FALSE, TRUE>>}

SessionInit ==
  /\ now = T0
  /\ tz \in Offsets
  /\ stateFile \in StateFiles
  /\ logFile \in InitialLogs
  /\ last = Call("new")
  /\ calls = 0
  /\ configDir = TRUE
  /\ procs = NoProcs

\* no operation was called yet
Fresh == last.op = "new"

\* one operation is called
SessionNext ==
  \/ Fresh /\ UNCHANGED <<calls, configDir, procs>>
           /\ \E a \in StartArgs, noRound \in BOOLEAN : Start(a[1], a[2], noRound, 0)
  \/ Fresh /\ UNCHANGED <<calls, configDir, procs>> /\ \E noRound \in BOOLEAN : Stop(noRound)
  \/ Fresh /\ UNCHANGED <<calls, configDir, procs>>
           /\ \E a \in StartArgs, noRound \in BOOLEAN : StartOnFailingDisk(a[1], a[2], noRound, 0)
  \/ Fresh /\ UNCHANGED <<calls, configDir, procs>> /\ \E noRound \in BOOLEAN : StopOnFailingDisk(noRound)
  \/ Fresh /\ UNCHANGED <<calls, configDir, procs>> /\ \E a \in LogArgs : Log(a[1], a[2], a[3], a[4], 0)
  \/ Fresh /\ \E period \in SummaryPeriods, project \in SummaryProjects :
                Summary(period, NullDate, project)
  \/ Fresh /\ \E period \in SummaryPeriods, flags \in LogsFlags :
                Logs(period, flags[1], flags[2], flags[3])
  \/ Fresh /\ UNCHANGED <<calls, configDir, procs>>
           /\ \E index \in DeleteIndexes, period \in DeletePeriods :
                DeleteEntry(index, period, NullDate)
  \/ Fresh /\ \E options \in DeleteByOptions : DeleteByProject(options)
  \/ Fresh /\ \E projectName \in DeleteProjectNames : DeleteProject(projectName)
  \/ Fresh /\ ListProjects
  \/ Fresh /\ Export
  \/ Fresh /\ Status

SessionSpec == SessionInit /\ [][SessionNext]_vars

(***************************************************************************)
(* The constructor: #initialize is started and not awaited, so that its    *)
(* steps (mkdir, access, writeFile of the header) interleave with the      *)
(* first operation.  A missing log file is <<>>.                           *)
(***************************************************************************)
\* ensureConfigDir: fs.mkdir(configDir, {recursive: true})
EnsureConfigDir ==
  /\ procs.initialize = "ensureConfigDir"
  /\ configDir' = TRUE
  /\ procs' = [procs EXCEPT !.initialize = "access"]
  /\ UNCHANGED <<now, tz, stateFile, logFile, last, calls>>

\* initializeLogFile: fs.access(logFile) tells whether the file exists
AccessLogFile ==
  /\ procs.initialize = "access"
  /\ procs' = [procs EXCEPT !.initialize = IF logFile = <<>> THEN "writeFile" ELSE "done"]
  /\ UNCHANGED <<now, tz, stateFile, logFile, last, calls, configDir>>

\* initializeLogFile: fs.writeFile(logFile, header) replaces the content
WriteHeader ==
  /\ procs.initialize = "writeFile"
  /\ logFile' = <<Header>>
  /\ procs' = [procs EXCEPT !.initialize = "done"]
  /\ UNCHANGED <<now, tz, stateFile, last, calls, configDir>>

\* log(...) as the first operation: fs.appendFile creates a missing file
\* and fails in a missing directory
FirstLog(projectName, duration, description, day, random) ==
  /\ procs.operation = "pending"
  /\ procs' = [procs EXCEPT !.operation = "done"]
  /\ IF configDir \/ logError(projectName, duration, day) # ""
     THEN Log(projectName, duration, description, day, random)
     ELSE /\ last' = [Call("log") EXCEPT !.project = projectName, !.duration = duration,
                                         !.description = description, !.day = day,
                                         !.err = "Failed to append log entry: ENOENT"]
          /\ UNCHANGED <<now, tz, stateFile, logFile>>
  /\ UNCHANGED <<calls, configDir>>

\* stop(options) as the first operation
FirstStop(noRound) ==
  /\ procs.operation = "pending"
  /\ procs' = [procs EXCEPT !.operation = "done"]
  /\ Stop(noRound)
  /\ UNCHANGED <<calls, configDir>>

\* what the constructor finds: no directory at all, or a directory with or
\* without a log file and with or without a session
ConstructInit ==
  /\ now = T0
  /\ tz \in Offsets
  /\ stateFile \in {<<>>} \cup {<<state>> : state \in Sessions}
  /\ logFile \in {<<>>, <<Header>>}
  /\ configDir \in BOOLEAN
  /\ (stateFile # <<>> \/ logFile # <<>>) => configDir
  /\ last = Call("new")
  /\ calls = 0
  /\ procs = [NoProcs EXCEPT !.initialize = "ensureConfigDir", !.operation = "pending",
                             !.dirFound = configDir, !.logFound = logFile]

ConstructNext ==
  \/ EnsureConfigDir
  \/ AccessLogFile
  \/ WriteHeader
  \/ \E a \in LogAccepted : FirstLog(a[1], a[2], a[3], a[4], 0)
  \/ \E noRound \in BOOLEAN : FirstStop(noRound)

ConstructSpec == ConstructInit /\ [][ConstructNext]_vars

(***************************************************************************)
(* Two invocations at once: one process deletes (it reads the log, then    *)
(* rewrites the whole file from what it read), another appends (log or     *)
(* stop).  procs.entries is what the deleting process holds in memory.     *)
(***************************************************************************)
\* the deleting process has read the log: without an error it goes on to
\* the rewrite with the entries it keeps
AfterRead(call, err, remaining) ==
  /\ procs.remover = "read"
  /\ last' = [call EXCEPT !.err = err]
  /\ procs' = IF err # "" THEN [procs EXCEPT !.remover = "done"]
              ELSE [procs EXCEPT !.remover = "write", !.entries = remaining]
  /\ UNCHANGED <<now, tz, stateFile, logFile, calls, configDir>>

\* deleteEntry up to its filter
DeleteEntryReads(index, period) ==
  AfterRead([Call("deleteEntry") EXCEPT !.index = index, !.period = period,
                                        !.n = Len(entriesForPeriod(period, NullDate))],
            IF index < 1 \/ index > Len(entriesForPeriod(period, NullDate))
            THEN "Invalid index. Use a number between 1 and n" ELSE "",
            IF index < 1 \/ index > Len(entriesForPeriod(period, NullDate))
            THEN <<>>
            ELSE KeepOthers(readAllLogEntries(logFile),
                            entriesForPeriod(period, NullDate)[index]))

\* deleteByProject up to its filter
DeleteByProjectReads(options) ==
  AfterRead([Call("deleteByProject") EXCEPT !.arg = options],
            deleteByProjectError(logFile, options),
            remainingAfterDeleteBy(readAllLogEntries(logFile),
                                   entriesToDelete(readAllLogEntries(logFile), options)))

\* deleteProject up to its filter
DeleteProjectReads(projectName) ==
  AfterRead([Call("deleteProject") EXCEPT !.project = projectName],
            deleteProjectError(logFile, projectName),
            remainingAfterDeleteProject(readAllLogEntries(logFile), projectName))

\* variant: the rewrite keeps the row appended since the read
RewriteKeepingAppended ==
  /\ procs.remover = "write"
  /\ logFile' = IF procs.between
                THEN Append(SelectSeq(writeLogEntries(procs.entries),
                                      LAMBDA line : line # <<>>),
                            procs.appended)
                ELSE writeLogEntries(procs.entries)
  /\ procs' = [procs EXCEPT !.remover = "done"]
  /\ UNCHANGED <<now, tz, stateFile, last, calls, configDir>>

\* the rewrite: writeLogEntries of the entries kept
Rewrite ==
  /\ procs.remover = "write"
  /\ logFile' = writeLogEntries(procs.entries)
  /\ procs' = [procs EXCEPT !.remover = "done"]
  /\ UNCHANGED <<now, tz, stateFile, last, calls, configDir>>

\* the appending process has run: the row it appended, if any, and whether
\* the other process was between its read and its rewrite
AfterAppend ==
  procs' = [procs EXCEPT
              !.appender = "done",
              !.appended = IF Len(logFile') > Len(logFile) THEN logFile'[Len(logFile')]
                           ELSE <<>>,
              !.between = Len(logFile') > Len(logFile) /\ procs.remover = "write"]

\* log(...) in the other process
OtherLog(projectName, duration, description, day, random) ==
  /\ procs.appender = "pending"
  /\ Log(projectName, duration, description, day, random)
  /\ AfterAppend
  /\ UNCHANGED <<calls, configDir>>

\* stop(options) in the other process
OtherStop(noRound) ==
  /\ procs.appender = "pending"
  /\ Stop(noRound)
  /\ AfterAppend
  /\ UNCHANGED <<calls, configDir>>

\* a row of project q: "q,2025-08-15,45,,"
OtherRow == Q \o <<Comma>> \o DateStr(8, 15) \o <<Comma>> \o NumStr(45) \o <<Comma, Comma>>

\* the log files the two processes find
SharedLogs == InitialLogs \cup {<<Header, HandWritten, OtherRow>>}

SharedInit ==
  /\ now = T0
  /\ tz \in Offsets
  /\ stateFile \in {<<>>} \cup {<<state>> : state \in Sessions}
  /\ logFile \in SharedLogs
  /\ last = Call("new")
  /\ calls = 0
  /\ configDir = TRUE
  /\ procs = [NoProcs EXCEPT !.remover = "read", !.appender = "pending"]

SharedNext ==
  \/ \E index \in DeleteIndexes, period \in DeletePeriods : DeleteEntryReads(index, period)
  \/ \E options \in DeleteByOptions : DeleteByProjectReads(options)
  \/ \E projectName \in DeleteProjectNames : DeleteProjectReads(projectName)
  \/ Rewrite
  \/ \E a \in LogAccepted : OtherLog(a[1], a[2], a[3], a[4], 0)
  \/ \E noRound \in BOOLEAN : OtherStop(noRound)

SharedSpec == SharedInit /\ [][SharedNext]_vars

(***************************************************************************)
(* Reading the log: files with well-formed, malformed and legacy rows,     *)
(* read by readAllLogEntries                                               *)
(***************************************************************************)
\* most rows of a log file that is read
MaxLines == 3

\* the header of the older format
LegacyHeader == <<Tok("project,start_time,end_time", 0, 0)>>

\* TimeEntry.fromCSVLine(line): <<timeEntry>>, or <<>> for null
timeEntryFromCSVLine(line) ==
  IF line = <<>> THEN <<>>
  ELSE LET parts == Split(line)
           project == Part(parts, 1)
           startTime == Part(parts, 2)
           endTime == Part(parts, 3)
           startDate == NewDateFromString(startTime)
           endDate == NewDateFromString(endTime)
       IN  IF Falsy(project) \/ Falsy(startTime) \/ Falsy(endTime) THEN <<>>
           ELSE IF startDate = NaNTime \/ endDate = NaNTime THEN <<>>
           ELSE IF RoundMinutes(endDate - startDate) <= 0 THEN <<>>
           ELSE <<[project |-> project, startTime |-> startDate,
                   endTime |-> endDate, originalLine |-> line]>>

\* readAllLogEntries of the FileManager that detects the format by the
\* header: SessionEntry has no fromTimeEntry, calling it throws a TypeError
readDetectingFormat(file) ==
  IF file = <<>> THEN [err |-> "", entries |-> <<>>]
  ELSE IF Head(file) = Header
    THEN [err |-> "", entries |-> readAllLogEntries(file)]
  ELSE IF \E i \in 2..Len(file) : timeEntryFromCSVLine(file[i]) # <<>>
    THEN [err |-> "SessionEntry.fromTimeEntry is not a function", entries |-> <<>>]
  ELSE [err |-> "", entries |-> <<>>]

\* a legacy row: "p,2025-08-16T22:00:00.000Z,2025-08-16T22:44:40.000Z"
LegacyRow ==
  P \o <<Comma>> \o ISOString(T0 - 5400) \o <<Comma>> \o ISOString(T0 - 5400 + 2680)

\* rows found in a log file: well-formed ones of three dates, one with
\* description and session id, and rows with an unparseable date, without
\* project, with duration 0, with a duration that is no number, an empty
\* line, a row of two fields and a legacy row
FileRows ==
  {HandWritten,
   Q \o <<Comma>> \o DateStr(8, 15) \o <<Comma>> \o NumStr(45) \o <<Comma, Chr("d"), Comma>>
     \o <<Tok("sess", T0, 0)>>,
   P \o <<Comma>> \o DateStr(8, 17) \o <<Comma>> \o NumStr(15) \o <<Comma, Comma>>,
   P \o <<Comma, Chr("x"), Comma>> \o NumStr(30) \o <<Comma, Comma>>,
   <<Comma>> \o DateStr(8, 16) \o <<Comma>> \o NumStr(30) \o <<Comma, Comma>>,
   P \o <<Comma>> \o DateStr(8, 16) \o <<Comma>> \o NumStr(0) \o <<Comma, Comma>>,
   P \o <<Comma>> \o DateStr(8, 16) \o <<Comma, Chr("x"), Comma, Comma>>,
   <<>>,
   P \o <<Comma>> \o DateStr(8, 16),
   LegacyRow}

\* the files: missing, or a header followed by up to MaxLines rows
RECURSIVE RowSeqs(_)
RowSeqs(n) ==
  IF n = 0 THEN {<<>>}
  ELSE RowSeqs(n - 1) \cup {Append(rows, row) : rows \in RowSeqs(n - 1), row \in FileRows}

Files ==
  {<<>>} \cup {<<header>> \o rows : header \in {Header, LegacyHeader}, rows \in RowSeqs(MaxLines)}

\* getAllLogEntries(): readAllLogEntries of the current FileManager
GetAllLogEntries ==
  /\ last.op = "new"
  /\ last' = [Call("getAllLogEntries") EXCEPT !.view = readAllLogEntries(logFile)]
  /\ UNCHANGED <<now, tz, stateFile, logFile, calls, configDir, procs>>

\* the same with the FileManager that detects the format
GetAllLogEntriesDetectingFormat ==
  /\ last.op = "new"
  /\ last' = [Call("getAllLogEntriesDetectingFormat") EXCEPT
                !.err = readDetectingFormat(logFile).err,
                !.view = readDetectingFormat(logFile).entries]
  /\ UNCHANGED <<now, tz, stateFile, logFile, calls, configDir, procs>>

ReadInit ==
  /\ now = T0
  /\ tz \in Offsets
  /\ stateFile = <<>>
  /\ logFile \in Files
  /\ last = Call("new")
  /\ calls = 0
  /\ configDir = TRUE
  /\ procs = NoProcs

ReadNext ==
  \/ GetAllLogEntries
  \/ GetAllLogEntriesDetectingFormat

ReadSpec == ReadInit /\ [][ReadNext]_vars

(***************************************************************************)
(* The round trip: entries written by writeLogEntries and read back by     *)
(* readAllLogEntries                                                       *)
(***************************************************************************)
\* most entries written at once
MaxWritten == 2

\* a project with a comma in it: "p,q"
CommaProject == <<Chr("p"), Comma, Chr("q")>>

\* the entries the operations build (start/stop and log accept every
\* non-empty project and every description): without and with description
\* and session id, a blank description, commas in the description and in
\* the project
WrittenEntries ==
  {SessionEntry(project, date, Num(30, 0), description, sessionId, Null) :
     project \in {P, CommaProject},
     date \in {DateStr(8, 15), DateStr(8, 16)},
     description \in {Null, <<>>, <<Chr("d")>>, D},
     sessionId \in {Null, <<Tok("manual", T0, 0)>>}}

RECURSIVE EntrySeqs(_)
EntrySeqs(n) ==
  IF n = 0 THEN {<<>>}
  ELSE EntrySeqs(n - 1)
         \cup {Append(entries, entry) : entries \in EntrySeqs(n - 1), entry \in WrittenEntries}

\* writeLogEntries(entries), then readAllLogEntries()
WriteAndRead ==
  /\ last.op = "new"
  /\ logFile' = writeLogEntries(last.arg)
  /\ last' = [Call("writeLogEntries") EXCEPT
                !.arg = last.arg,
                !.view = readAllLogEntries(writeLogEntries(last.arg))]
  /\ UNCHANGED <<now, tz, stateFile, calls, configDir, procs>>

RoundTripInit ==
  /\ now = T0
  /\ tz \in Offsets
  /\ stateFile = <<>>
  /\ logFile = <<Header>>
  /\ \E entries \in EntrySeqs(MaxWritten) : last = [Call("new") EXCEPT !.arg = entries]
  /\ calls = 0
  /\ configDir = TRUE
  /\ procs = NoProcs

RoundTripNext == WriteAndRead

RoundTripSpec == RoundTripInit /\ [][RoundTripNext]_vars

(***************************************************************************)
(* What the claims are stated with                                         *)
(***************************************************************************)
\* the last call was op and threw nothing
Returned(op) == last.op = op /\ last.err = ""

\* the session that was active when the last call was made
Previous == last.preState[1]

\* round((now - startTime) / 60000) of the session the last call found
ElapsedMinutes == RoundMinutes(last.at - Previous.startTime)

\* the duration the last call logs for that session
LoggedMinutes ==
  IF last.noRound THEN ElapsedMinutes ELSE roundToNearest15(ElapsedMinutes)

\* the CSV row of an entry: the fields joined by commas, description and
\* session id blank when absent
Row(project, date, minutes, description, sessionId) ==
  project \o <<Comma>> \o date \o <<Comma>> \o NumStr(minutes) \o <<Comma>>
    \o (IF Falsy(description) THEN <<>> ELSE description) \o <<Comma>>
    \o (IF Falsy(sessionId) THEN <<>> ELSE sessionId)

\* the log gained exactly the row of one entry of the previous session,
\* with the given duration, on some date
GainedSessionRow(minutes) ==
  \E m \in 1..12, d \in 1..31 :
    logFile = Append(last.preLog,
                Row(Previous.project, DateStr(m, d), minutes,
                    Previous.description, Previous.sessionId))

\* C1: start with a project never fails; it leaves exactly one
\* session state, of the given project, with a sess_ id that differs from
\* the id of the session active before; at most one session state exists
C1_StartNewSessionIdDiffers ==
  /\ Len(stateFile) <= 1
  /\ (last.op = "start" /\ ~Falsy(last.project)) =>
       /\ last.err = ""
       /\ Len(stateFile) = 1
       /\ stateFile[1].project = last.project
       /\ HasPrefix(stateFile[1].sessionId, "sess")
       /\ (last.preState # <<>> => stateFile[1].sessionId # Previous.sessionId)

\* C1, without the uniqueness of the id: start with a project never fails,
\* from Idle and from Tracking; it leaves exactly one session state, of the given project,
\* whose sess_ id is built by this call from its timestamp and its random
\* suffix, so that it differs from the previous id whenever the clock or the
\* suffix differs; at most one session state exists
C1_StartAlwaysSwitches ==
  /\ Len(stateFile) <= 1
  /\ (last.op = "start" /\ ~Falsy(last.project)) =>
       /\ last.err = ""
       /\ Len(stateFile) = 1
       /\ stateFile[1].project = last.project
       /\ stateFile[1].startTime = last.at
       /\ stateFile[1].sessionId = <<Tok("sess", last.at, last.random)>>
       /\ (/\ last.preState # <<>>
           /\ (Previous.startTime # last.at \/ Previous.sessionId[1].r # last.random))
            => stateFile[1].sessionId # Previous.sessionId

\* a start that found a session of another project, logged it and switched
C1_Witness ==
  /\ Returned("start")
  /\ last.preState # <<>>
  /\ Previous.project # last.project
  /\ stateFile[1].project = last.project
  /\ stateFile[1].sessionId # Previous.sessionId
  /\ Len(logFile) = Len(last.preLog) + 1

C3_StopEndsIdle == Returned("stop") => stateFile = <<>>

\* a stop whose elapsed time rounded to 0: nothing logged, state cleared
C3_Witness ==
  /\ Returned("stop")
  /\ ElapsedMinutes > 0
  /\ LoggedMinutes = 0
  /\ logFile = last.preLog
  /\ stateFile = <<>>

C5_StopWhenIdleFails ==
  (last.op = "stop" /\ last.preState = <<>>) =>
    /\ last.err = "No active tracking session found"
    /\ stateFile = <<>>
    /\ logFile = last.preLog

\* a stop that found no session, with rows in the log
C5_Witness ==
  /\ last.op = "stop"
  /\ last.preState = <<>>
  /\ last.err = "No active tracking session found"
  /\ Len(logFile) > 1

\* how many times e occurs in the sequence
Occurrences(seq, e) == Cardinality({i \in 1..Len(seq) : seq[i] = e})

\* every entry of the first sequence is in the second, as many times
AllStillIn(before, after) ==
  \A i \in 1..Len(before) :
    Occurrences(after, before[i]) >= Occurrences(before, before[i])

\* the local calendar date of the instant of the last call
Today == DateStr(MonthOf(LocalDay(last.at)), DayOfMonth(LocalDay(last.at)))

\* the day is a date of the calendar, written YYYY-MM-DD
RealCalendarDate(day) ==
  /\ Len(day) = 1
  /\ day[1].k = "date"
  /\ day[1].n \in 1..12
  /\ day[1].r >= 1
  /\ day[1].r <= DaysBeforeMonth[day[1].n + 1] - DaysBeforeMonth[day[1].n]

\* the last call was a log with a project, a positive whole number of
\* minutes and, if any, a real day
ValidLog ==
  /\ last.op = "log"
  /\ ~Falsy(last.project)
  /\ last.duration.k = "number" /\ last.duration.f = 0 /\ last.duration.i > 0
  /\ (Falsy(last.day) \/ RealCalendarDate(last.day))

\* C6: log with valid arguments appends exactly one row, tagged manual_, of
\* the given project, description and day (today without a day) and of
\* exactly the given minutes; every entry that was read from the log before
\* is still read from it, and the session state is untouched
C6_LogAppendsExactEntry ==
  ValidLog =>
    /\ last.err = ""
    /\ \E r \in Randoms :
         logFile = Append(last.preLog,
                     Row(last.project,
                         IF Falsy(last.day) THEN Today ELSE last.day,
                         last.duration.i, last.description,
                         <<Tok("manual", last.at, r)>>))
    /\ AllStillIn(readAllLogEntries(last.preLog), readAllLogEntries(logFile))
    /\ stateFile = last.preState

\* a log without a day, east of Greenwich before local midnight is past in
\* UTC, into a log with entries, with a session active
C6_Witness ==
  /\ ValidLog
  /\ Falsy(last.day)
  /\ Today # ISODate(last.at)
  /\ Len(readAllLogEntries(last.preLog)) >= 2
  /\ Len(logFile) = Len(last.preLog) + 1
  /\ last.preState # <<>>

\* the last call is one the validation must reject
MustBeRejected ==
  \/ last.op = "start" /\ Falsy(last.project)
  \/ /\ last.op = "log"
     /\ \/ Falsy(last.project)
        \/ last.duration.k # "number"
        \/ last.duration.i < 0
        \/ last.duration.i = 0 /\ last.duration.f = 0
        \/ ~Falsy(last.day) /\ ~RealCalendarDate(last.day)

\* C7: start without a project, and log without a project, without a
\* numeric duration, with a duration <= 0 or with a day that is no calendar
\* date, raise an error and leave the session state and the log as they
\* were, also while a session is active
C7_ValidationMutatesNothing ==
  MustBeRejected =>
    /\ last.err # ""
    /\ stateFile = last.preState
    /\ logFile = last.preLog

\* a log for 2025-02-30 rejected while a session was active
C7_Witness ==
  /\ last.op = "log"
  /\ last.day = DateStr(2, 30)
  /\ last.err = "Invalid date format. Use YYYY-MM-DD format."
  /\ last.preState # <<>>
  /\ Len(last.preLog) > 1

\* the period-filtered view the last call indexed
ViewBefore ==
  IF last.period = "all" THEN readAllLogEntries(last.preLog)
  ELSE FilterWithin(readAllLogEntries(last.preLog),
                    getCutoffDateForPeriod(last.period, last.at))

\* C9: deleteEntry with an index of the view removes exactly one row: one
\* entry fewer is read back, and every other entry, rows identical to the
\* deleted one included, is still there
C9_DeleteRemovesExactlyOne ==
  (last.op = "deleteEntry" /\ last.index \in 1..Len(ViewBefore)) =>
    /\ last.err = ""
    /\ Len(readAllLogEntries(logFile)) = Len(readAllLogEntries(last.preLog)) - 1
    /\ AllStillIn(readAllLogEntries(logFile), readAllLogEntries(last.preLog))

\* a delete from a log of three entries that left the two others
C9_Witness ==
  /\ Returned("deleteEntry")
  /\ last.index \in 1..Len(ViewBefore)
  /\ Len(readAllLogEntries(last.preLog)) = 3
  /\ Len(readAllLogEntries(logFile)) = 2

\* C10: deleteEntry with an index below 1 or above the length of the
\* period-filtered view, an empty view included, fails with 'Invalid index'
\* naming the range 1..length, and leaves the log unchanged
C10_InvalidIndexRejected ==
  (last.op = "deleteEntry" /\ last.index \notin 1..Len(ViewBefore)) =>
    /\ last.err = "Invalid index. Use a number between 1 and n"
    /\ last.n = Len(ViewBefore)
    /\ logFile = last.preLog
    /\ stateFile = last.preState

\* index 2 rejected on a day view of one entry, of a log that holds more
C10_Witness ==
  /\ last.op = "deleteEntry"
  /\ last.period = "day"
  /\ last.index = 2
  /\ Len(ViewBefore) = 1
  /\ Len(readAllLogEntries(last.preLog)) >= 2
  /\ last.err = "Invalid index. Use a number between 1 and n"
  /\ logFile = last.preLog

\* the calendar day the view of the last call starts with: the local day of
\* the reference instant, the most recent Sunday, the 1st of the month
CutoffDay ==
  LET today == LocalDay(last.dateForTesting)
  IN  CASE last.period = "day" -> today
        [] last.period = "week" -> today - GetDay(today)
        [] last.period = "month" -> DayNumber(MonthOf(today), 1)

\* the calendar day written in the date column of the entry's row
StoredDay(entry) ==
  LET date == Split(entry.originalLine)[2]
  IN  DayNumber(date[1].n, date[1].r)

\* C8: for the periods day, week and month, every reference instant and
\* every timezone offset, the view holds exactly the entries whose stored
\* calendar date is on or after the local calendar date of the cutoff
C8_PeriodViewByCalendarDate ==
  (last.op = "getLogEntriesForPeriod" /\ last.period \in {"day", "week", "month"}) =>
    last.view = SelectSeq(readAllLogEntries(logFile),
                          LAMBDA entry : StoredDay(entry) >= CutoffDay)

\* a day view that holds the entry of the reference day and not the one of
\* the day before
C8_Witness ==
  /\ last.op = "getLogEntriesForPeriod"
  /\ last.period = "day"
  /\ Len(last.view) = 1
  /\ StoredDay(last.view[1]) = CutoffDay
  /\ \E i \in 1..Len(readAllLogEntries(logFile)) :
       StoredDay(readAllLogEntries(logFile)[i]) = CutoffDay - 1

\* the last call rounded a duration
Rounded == last.op = "roundToNearest15"

\* C18: for every non-negative integer duration, roundToNearest15 gives 0 or
\* a positive multiple of 15
C18_RoundedIsMultipleOf15 ==
  Rounded => last.result = 0 \/ (last.result > 0 /\ last.result % 15 = 0)

\* 128 minutes rounded to 135, and 5 minutes to 0
C18_Witness ==
  /\ Rounded
  /\ \/ last.arg = 128 /\ last.result = 135
     \/ last.arg = 5 /\ last.result = 0

\* C19: the documented buckets, boundaries inclusive: below 8 gives 0; from
\* 8 on, with h = d div 60 and r = d mod 60, r in 8..22 gives 60h+15, r in
\* 23..37 gives 60h+30, r in 38..52 gives 60h+45, r in 53..59 gives 60(h+1)
C19_RoundingBuckets ==
  Rounded =>
    LET d == last.arg
        h == d \div 60
        r == d % 60
    IN  /\ d < 8 => last.result = 0
        /\ (d >= 8 /\ r \in 8..22) => last.result = 60 * h + 15
        /\ (d >= 8 /\ r \in 23..37) => last.result = 60 * h + 30
        /\ (d >= 8 /\ r \in 38..52) => last.result = 60 * h + 45
        /\ (d >= 8 /\ r \in 53..59) => last.result = 60 * (h + 1)
        /\ d = 7 => last.result = 0
        /\ d = 8 => last.result = 15
        /\ d = 52 => last.result = 45
        /\ d = 53 => last.result = 60

\* a boundary above the hour: 112 minutes (r = 52) rounded to 105
C19_Witness == Rounded /\ last.arg = 112 /\ last.result = 105

\* C20: for every integer d >= 8, durations of an hour or more included,
\* roundToNearest15(d) differs from d by at most 7 minutes
C20_RoundsToNearest ==
  (Rounded /\ last.arg >= 8) =>
    (last.result - last.arg <= 7 /\ last.arg - last.result <= 7)

\* below the hour the rounded value is within 7 minutes: 38 gives 45
C20_Witness == Rounded /\ last.arg = 38 /\ last.result = 45

\* the sum of the field of the records of a sequence
RECURSIVE SumOf(_, _)
SumOf(seq, field) ==
  IF seq = <<>> THEN 0 ELSE Head(seq)[field] + SumOf(Tail(seq), field)

\* the last call built the hierarchy of a flat map
Rolled == last.op = "calculateHierarchicalStats"

\* the node of a project in the hierarchy that was built
Node(project) == AtKey(last.result, project)

\* the components of a path, as the '/' separate them
Components(project) == parseProject(project)

\* child is one component below parent
ImmediateChild(parent, child) ==
  /\ Len(Components(child)) = Len(Components(parent)) + 1
  /\ SubSeq(Components(child), 1, Len(Components(parent))) = Components(parent)

\* below is a path of which above is a strict component prefix
Descendant(above, below) ==
  /\ Len(Components(below)) > Len(Components(above))
  /\ SubSeq(Components(below), 1, Len(Components(above))) = Components(above)

\* the nodes of the hierarchy that satisfy the test
NodesWhere(Test(_)) == SelectSeq(last.result, LAMBDA node : Test(node.project))

\* the projects of the map that have no parent in the map
Roots ==
  NodesWhere(LAMBDA project :
    ~\E i \in 1..Len(last.arg) : ImmediateChild(last.arg[i].project, project))

C17_TotalCoversDescendants ==
  Rolled =>
    \A i \in 1..Len(last.arg) :
      LET project == last.arg[i].project
      IN  Node(project).totalMinutes =
            Node(project).directMinutes
              + SumOf(NodesWhere(LAMBDA below : Descendant(project, below)),
                      "directMinutes")

\* all levels present: total(company) is the sum of the four paths
C17_Witness ==
  /\ Rolled
  /\ HasKey(last.arg, Company) /\ HasKey(last.arg, Sales)
  /\ HasKey(last.arg, RegionA) /\ HasKey(last.arg, RegionB)
  /\ Node(Company).totalMinutes =
       Node(Company).directMinutes + Node(Sales).directMinutes
         + Node(RegionA).directMinutes + Node(RegionB).directMinutes

\* the entries read from the log before the last call, and after it
Before == readAllLogEntries(last.preLog)
After == readAllLogEntries(logFile)

\* the entry's project contains the text, ignoring case
ProjectContains(entry, text) ==
  includes(toLowerCase(entry.project), toLowerCase(text))

\* the entries of Before that the project option of the last call selects
Candidates ==
  IF Falsy(last.arg.project) THEN Before
  ELSE SelectSeq(Before, LAMBDA entry : ProjectContains(entry, last.arg.project))

\* C11: deleteByProject removes from the log exactly the entries it reports
\* and nothing else: the entries read back are fewer by the reported count,
\* their minutes by the reported total; with last, exactly one entry, of the
\* latest date among the candidates, is removed, also when other entries
\* share its project, date and duration
C11_DeleteByProjectRemovesReported ==
  Returned("deleteByProject") =>
    /\ Len(After) = Len(Before) - Len(last.view)
    /\ SumOf(After, "duration") = SumOf(Before, "duration") - last.result
    /\ last.result = SumOf(last.view, "duration")
    /\ \A i \in 1..Len(Before) :
         Occurrences(After, Before[i]) =
           Occurrences(Before, Before[i]) - Occurrences(last.view, Before[i])
    /\ last.arg.last =>
         /\ Len(last.view) = 1
         /\ Len(After) = Len(Before) - 1
         /\ \A i \in 1..Len(Candidates) : Candidates[i].date <= last.view[1].date

\* the last entry matching p deleted from three entries, the two others,
\* one of them matching p as well, left
C11_Witness ==
  /\ Returned("deleteByProject")
  /\ last.arg.last
  /\ last.arg.project = P
  /\ Len(Before) = 3
  /\ Len(After) = 2
  /\ \E i \in 1..2 : ProjectContains(After[i], P)
  /\ last.view[1].project = P

\* the calendar day a period starts with, for the local day of an instant
CutoffDayOf(period, t) ==
  CASE period = "day" -> LocalDay(t)
    [] period = "week" -> LocalDay(t) - GetDay(LocalDay(t))
    [] period = "month" -> DayNumber(MonthOf(LocalDay(t)), 1)

\* the period the options of the last call ask for
RequestedPeriod ==
  IF last.arg.today THEN "day" ELSE IF last.arg.week THEN "week" ELSE "month"

\* a narrowing step of the last deleteByProject left no candidate
NoCandidates ==
  /\ last.op = "deleteByProject"
  /\ \/ Before = <<>>
     \/ Candidates = <<>>
     \/ /\ ~last.arg.last
        /\ last.arg.today \/ last.arg.week \/ last.arg.month
        /\ \A i \in 1..Len(Candidates) :
             StoredDay(Candidates[i]) < CutoffDayOf(RequestedPeriod, last.at)

\* C12: deleteByProject fails and leaves the log unchanged whenever the log
\* is empty, no entry matches the project filter, or no matching entry falls
\* in the requested period
C12_NoCandidatesIsAnError ==
  NoCandidates =>
    /\ last.err # ""
    /\ logFile = last.preLog
    /\ stateFile = last.preState

\* entries of the project, none of them of this month: the month is refused
C12_Witness ==
  /\ NoCandidates
  /\ Len(Candidates) >= 1
  /\ Len(Before) >= 2
  /\ last.arg.month /\ ~last.arg.today
  /\ last.err = "No entries found timeRange projectFilter"
  /\ logFile = last.preLog

\* the entry's project is the name, ignoring case
ProjectIs(entry, name) == toLowerCase(entry.project) = toLowerCase(name)

\* C13: deleteProject(name) removes all and only the entries whose project
\* equals name ignoring case; when there is none it fails with 'Project
\* "name" not found' and the log is unchanged
C13_DeleteProjectExactName ==
  last.op = "deleteProject" =>
    IF \E i \in 1..Len(Before) : ProjectIs(Before[i], last.project)
    THEN /\ last.err = ""
         /\ After = SelectSeq(Before, LAMBDA entry : ~ProjectIs(entry, last.project))
    ELSE /\ last.err = "Project \"name\" not found"
         /\ logFile = last.preLog

\* p and P deleted by the name p, the entry of p/x or pq kept
C13_Witness ==
  /\ Returned("deleteProject")
  /\ last.project = P
  /\ Len(Before) = 3
  /\ \E i \in 1..3 : Before[i].project = P
  /\ \E i \in 1..3 : Before[i].project = UpperP
  /\ Len(After) = 1
  /\ After[1].project \in {Child, Longer}

\* C14: deleteProject(X) and deleteByProject({project: X}) leave the same
\* entries in the log, for every log and every name X
C14_DeleteProjectSameAsDeleteByProject ==
  last.op = "deleteProject" =>
    After = readAllLogEntries(
              logAfterDeleteByProject(last.preLog,
                Options(last.project, FALSE, FALSE, FALSE, FALSE)))

\* a log where both leave the same: the entries of p/x deleted, q kept
C14_Witness ==
  /\ Returned("deleteProject")
  /\ last.project = Child
  /\ Len(After) >= 1
  /\ Len(After) < Len(Before)
  /\ After = readAllLogEntries(
               logAfterDeleteByProject(last.preLog,
                 Options(Child, FALSE, FALSE, FALSE, FALSE)))

\* the entries of the period view of the last summary
PeriodView == filterEntriesByPeriod(Before, last.period, last.at)

\* the entries the last summary is computed over
Summarised == filterEntriesByProject(PeriodView, last.project)

\* the entries of the project among those summarised
Of(project) == SelectSeq(Summarised, LAMBDA entry : entry.project = project)

Fields(line) == Split(line)

\* a legacy row: a project, the ISO timestamp of the start and the ISO
\* timestamp of a later end
IsLegacyRow(line) ==
  /\ Len(Fields(line)) = 3
  /\ Fields(line)[1] # <<>>
  /\ Len(Fields(line)[2]) = 1 /\ Fields(line)[2][1].k = "iso"
  /\ Len(Fields(line)[3]) = 1 /\ Fields(line)[3][1].k = "iso"
  /\ Fields(line)[3][1].n > Fields(line)[2][1].n

\* the instants a legacy row gives as start and end
LegacyStart(line) == Fields(line)[2][1].n
LegacyEnd(line) == Fields(line)[3][1].n

\* the entries the last read returned for the row
ReadFrom(line) == SelectSeq(last.view, LAMBDA entry : entry.originalLine = line)

\* the last call read the whole log
ReadAll == last.op \in {"getAllLogEntries", "getAllLogEntriesDetectingFormat"}

\* C21: a legacy row project,start_time,end_time is read as one entry of
\* that project, dated on the day of start_time, of round((end - start) /
\* 60000) minutes, with a session id of session provenance, and never as an
\* entry of another duration
C21_LegacyRowConverted ==
  ReadAll =>
    \A i \in 2..Len(logFile) :
      IsLegacyRow(logFile[i]) =>
        /\ last.err = ""
        /\ ReadFrom(logFile[i]) # <<>>
        /\ \A j \in 1..Len(ReadFrom(logFile[i])) :
             LET entry == ReadFrom(logFile[i])[j]
             IN  /\ entry.project = Fields(logFile[i])[1]
                 /\ entry.duration = RoundMinutes(LegacyEnd(logFile[i]) - LegacyStart(logFile[i]))
                 /\ UTCDay(entry.date) \in {UTCDay(LegacyStart(logFile[i])),
                                            LocalDay(LegacyStart(logFile[i]))}
                 /\ HasPrefix(entry.sessionId, "sess")

\* a legacy row of 44 min 40 s under the current header was read: the
\* entry has the year of the end timestamp as its minutes and no session id
C21_Witness ==
  /\ Returned("getAllLogEntries")
  /\ Len(logFile) = 2
  /\ logFile[1] = Header
  /\ IsLegacyRow(logFile[2])
  /\ Len(last.view) = 1
  /\ last.view[1].duration = 2025
  /\ last.view[1].sessionId = Undefined

\* the text is a decimal number greater than zero
PositiveNumber(text) == Len(text) = 1 /\ text[1].k = "num" /\ text[1].n > 0

\* the row has a project, a date and a positive numeric duration
HasRequiredFields(line) ==
  /\ Len(Fields(line)) >= 3
  /\ Fields(line)[1] # <<>>
  /\ Fields(line)[2] # <<>>
  /\ PositiveNumber(Fields(line)[3])

\* the rows of the file after the header, legacy rows apart
RowsOf(file) ==
  IF file = <<>> THEN <<>>
  ELSE SelectSeq(Tail(file), LAMBDA line : ~IsLegacyRow(line))

\* how many times the row occurs in a sequence of rows
RowCount(rows, line) == Cardinality({i \in 1..Len(rows) : rows[i] = line})

\* the dates of the two entries are real dates
BothDated(a, b) == a.date # NaNTime /\ b.date # NaNTime

\* C23: readAllEntries never aborts: for every file content it returns
\* every row with a project, a date and a positive numeric duration, no row
\* lacking one of them, in ascending date order, rows of equal date in file
\* order; a missing file gives the empty sequence
C23_ReadSkipsBadRowsAndSorts ==
  last.op = "getAllLogEntries" =>
    LET returned == SelectSeq(last.view, LAMBDA entry : ~IsLegacyRow(entry.originalLine))
    IN  /\ last.err = ""
        /\ logFile = <<>> => last.view = <<>>
        /\ \A i \in 1..Len(RowsOf(logFile)) :
             LET line == RowsOf(logFile)[i]
             IN  RowCount([j \in 1..Len(returned) |-> returned[j].originalLine], line)
                   = IF HasRequiredFields(line) THEN RowCount(RowsOf(logFile), line) ELSE 0
        /\ \A i \in 1..Len(returned) : HasRequiredFields(returned[i].originalLine)
        /\ \A i, j \in 1..Len(returned) :
             (i < j /\ BothDated(returned[i], returned[j]))
               => returned[i].date <= returned[j].date
        /\ \A i, j \in 1..Len(returned) :
             (i < j /\ returned[i].date = returned[j].date
                    /\ returned[i].originalLine # returned[j].originalLine)
               => \E a \in 2..Len(logFile), b \in 2..Len(logFile) :
                    a < b /\ logFile[a] = returned[i].originalLine
                          /\ logFile[b] = returned[j].originalLine

\* three rows, the middle one without project, the others out of order:
\* two entries returned, the earlier date first
C23_Witness ==
  /\ Returned("getAllLogEntries")
  /\ Len(logFile) = 4
  /\ Len(last.view) = 2
  /\ ~HasRequiredFields(logFile[3])
  /\ last.view[1].originalLine = logFile[4]
  /\ last.view[2].originalLine = logFile[2]
  /\ last.view[1].date < last.view[2].date

\* C22: after any sequence of start, stop and log calls with accepted
\* arguments, non-integer durations included, every row of the log has a
\* non-empty project and a positive integer duration, so that reading the
\* log skips no row the program wrote
C22_WrittenRowsAreValid ==
  \A i \in 2..Len(logFile) :
    logFile[i] # <<>> =>
      /\ Len(Fields(logFile[i])) >= 3
      /\ Fields(logFile[i])[1] # <<>>
      /\ PositiveNumber(Fields(logFile[i])[3])
      /\ fromCSVLine(logFile[i]) # <<>>

\* log of 30 minutes appended a row that is read back with 30 minutes
C22_Witness ==
  /\ Returned("log")
  /\ last.duration = Num(30, 0)
  /\ Len(logFile) = Len(last.preLog) + 1
  /\ fromCSVLine(logFile[Len(logFile)]) # <<>>
  /\ fromCSVLine(logFile[Len(logFile)])[1].duration = 30
  /\ C22_WrittenRowsAreValid

\* an optional field, blank normalised to absent
Normalised(x) == IF Falsy(x) THEN Null ELSE x

\* the two entries agree in project, date, duration, description and
\* session id
SameEntry(a, b) ==
  /\ a.project = b.project
  /\ a.date = b.date
  /\ a.duration = b.duration
  /\ Normalised(a.description) = Normalised(b.description)
  /\ Normalised(a.sessionId) = Normalised(b.sessionId)

\* how many entries of the sequence agree with the entry
CountSame(entries, entry) ==
  Cardinality({i \in 1..Len(entries) : SameEntry(entries[i], entry)})

\* C24: writeAllEntries followed by readAllEntries yields the entries
\* written, with the same project, date, duration, description and session
\* id, blank optional fields normalised to absent, in ascending date order,
\* for every project and description, with a comma as well
C24_WriteReadRoundTrip ==
  last.op = "writeLogEntries" =>
    /\ Len(last.view) = Len(last.arg)
    /\ \A i \in 1..Len(last.arg) :
         CountSame(last.view, last.arg[i]) = CountSame(last.arg, last.arg[i])
    /\ \A i \in 1..(Len(last.view) - 1) : last.view[i].date <= last.view[i + 1].date

\* two entries without commas, the later date written first, one with a
\* blank description: read back in date order with the same fields
C24_Witness ==
  /\ last.op = "writeLogEntries"
  /\ Len(last.arg) = 2
  /\ last.arg[1].date > last.arg[2].date
  /\ last.arg[1].description = <<>>
  /\ last.arg[2].description = <<Chr("d")>>
  /\ Len(last.view) = 2
  /\ SameEntry(last.view[1], last.arg[2])
  /\ SameEntry(last.view[2], last.arg[1])
  /\ last.view[2].description = Null

\* the last call found no readable session state: no state file, or one
\* that is not JSON
FoundNoState == last.preState \in {<<>>, <<Unparseable>>}

\* C25: readState gives absent for a missing and for an unparseable state
\* file: start then begins a new session, stop reports 'No active tracking
\* session found', status reports not tracking
C25_UnparseableStateIsAbsent ==
  FoundNoState =>
    /\ (last.op = "start" /\ ~Falsy(last.project)) =>
         /\ last.err = ""
         /\ Len(stateFile) = 1
         /\ stateFile[1].project = last.project
         /\ stateFile[1].startTime = last.at
         /\ logFile = last.preLog
    /\ last.op = "stop" =>
         /\ last.err = "No active tracking session found"
         /\ logFile = last.preLog
    /\ last.op = "status" =>
         /\ last.err = ""
         /\ last.result.tracking = FALSE

\* without a state file stop reports that there is no session
C25_Witness ==
  /\ last.op = "stop"
  /\ last.preState = <<>>
  /\ last.err = "No active tracking session found"
  /\ stateFile = <<>>

\* C26: only start and stop change the session state: log, summary, logs,
\* deleteEntry, deleteByProject, deleteProject, listProjects, export and
\* status leave it unchanged, and status, summary, logs, listProjects and
\* export leave the log unchanged as well
C26_OnlyStartAndStopChangeState ==
  /\ last.op \in {"log", "summary", "logs", "deleteEntry", "deleteByProject",
                  "deleteProject", "listProjects", "export", "status"}
       => stateFile = last.preState
  /\ last.op \in {"status", "summary", "logs", "listProjects", "export"}
       => logFile = last.preLog

\* the entries of p deleted while a session of p was running: the session
\* is still there
C26_Witness ==
  /\ Returned("deleteProject")
  /\ last.project = P
  /\ last.preState # <<>>
  /\ last.preState[1].project = P
  /\ logFile # last.preLog
  /\ stateFile = last.preState

\* C30: a session is not lost when the append fails: stop removes the state
\* and start replaces it only with the entry of the session appended (when
\* its final duration is positive); when the append fails the error reaches
\* the caller and the state is the previous one, unchanged
C30_SessionSurvivesAppendFailure ==
  (last.op \in {"start", "stop"} /\ last.preState \in {<<state>> : state \in Sessions}) =>
    /\ last.err = AppendFailed =>
         /\ stateFile = last.preState
         /\ logFile = last.preLog
    /\ (stateFile # last.preState /\ LoggedMinutes > 0) =>
         /\ last.err = ""
         /\ GainedSessionRow(LoggedMinutes)

\* stop of a session of 50 minutes on the failing disk: the error is
\* thrown, the session is still there
C30_Witness ==
  /\ last.op = "stop"
  /\ last.err = AppendFailed
  /\ ElapsedMinutes = 50
  /\ stateFile = last.preState
  /\ stateFile[1].project = P

\* the "YYYY-MM-DD" of the local calendar day of an instant
LocalDateOf(t) == DateStr(MonthOf(LocalDay(t)), DayOfMonth(LocalDay(t)))

\* the last call logged the session it found
LoggedSession ==
  /\ last.op \in {"start", "stop"}
  /\ last.err = ""
  /\ last.preState # <<>>
  /\ LoggedMinutes > 0

\* C27: the entry appended by stop, and by the auto-stop inside start,
\* carries the local calendar date of the instant the session was started,
\* in every timezone, as a manual entry logged for that local day does
C27_SessionEntryHasLocalDate ==
  LoggedSession =>
    logFile = Append(last.preLog,
                Row(Previous.project, LocalDateOf(Previous.startTime), LoggedMinutes,
                    Previous.description, Previous.sessionId))

\* west of UTC, a session started at 18:30 local time and stopped 50
\* minutes later is logged on its local day
C27_Witness ==
  /\ LoggedSession
  /\ last.op = "stop"
  /\ tz < 0
  /\ ElapsedMinutes = 50
  /\ logFile = Append(last.preLog,
                 Row(Previous.project, LocalDateOf(Previous.startTime), 45,
                     Previous.description, Previous.sessionId))

\* the initialization and the first operation have both finished
Constructed ==
  /\ procs.initialize = "done"
  /\ procs.operation = "done"
  /\ last.op \in {"log", "stop"}

\* the project and the minutes of the entry the first operation appends
FirstProject == IF last.op = "log" THEN last.project ELSE Previous.project

FirstMinutes == IF last.op = "log" THEN last.duration.i ELSE LoggedMinutes

\* C28: the initialization the constructor starts never interferes with the
\* first operation: log, or stop of a session, called right after the
\* construction on a directory without a log file succeeds under every
\* interleaving, and the log file is then the header followed by the
\* appended entry, which reading the log returns
C28_InitializationNeverInterferes ==
  (/\ Constructed
   /\ procs.dirFound
   /\ procs.logFound = <<>>
   /\ last.op = "stop" => last.preState # <<>>
   /\ FirstMinutes > 0) =>
    /\ last.err = ""
    /\ Len(logFile) = 2
    /\ logFile[1] = Header
    /\ Len(readAllLogEntries(logFile)) = 1
    /\ readAllLogEntries(logFile)[1].project = FirstProject
    /\ readAllLogEntries(logFile)[1].duration = FirstMinutes
    /\ readAllLogEntries(logFile)[1].originalLine = logFile[2]

\* log of 30 minutes for p after the construction in a directory without a
\* log file: the header and the entry
C28_Witness ==
  /\ Constructed
  /\ procs.dirFound
  /\ procs.logFound = <<>>
  /\ Returned("log")
  /\ last.duration = Num(30, 0)
  /\ Len(logFile) = 2
  /\ logFile[1] = Header
  /\ Len(readAllLogEntries(logFile)) = 1
  /\ readAllLogEntries(logFile)[1].project = P

\* both processes have finished
BothDone == procs.remover = "done" /\ procs.appender = "done"

\* C29: two invocations are not isolated: a row appended by another
\* process between the read and the rewrite of deleteEntry, deleteByProject
\* or deleteProject is missing from the final log, although it was not
\* selected for deletion
C29_AppendDuringDeleteIsLost ==
  (BothDone /\ procs.between) =>
    /\ procs.appended # <<>>
    /\ \A i \in 1..Len(logFile) : logFile[i] # procs.appended
    /\ \A i \in 1..Len(readAllLogEntries(logFile)) :
         readAllLogEntries(logFile)[i].originalLine # procs.appended

\* a row for q appended while a row of p was being deleted: the other rows
\* are kept, the row of q is gone
C29_Witness ==
  /\ BothDone
  /\ procs.between
  /\ Fields(procs.appended)[1] = Q
  /\ Len(readAllLogEntries(logFile)) >= 1
  /\ \A i \in 1..Len(logFile) : logFile[i] # procs.appended

====
